---- MODULE Spec2Model ----
(***************************************************************************)
(* A model of qutils: the pipeline that finds Quiver diagram URLs in a     *)
(* markdown document, decodes their payload, has an image rendered for     *)
(* each and splices a link-wrapped image reference into the document,      *)
(* with a url -> image cache.                                              *)
(*                                                                         *)
(* Text is modelled as a sequence of one-character strings, so offsets,    *)
(* the URL pattern, base64 and JSON are computed character by character.   *)
(***************************************************************************)
EXTENDS Integers, Sequences, FiniteSets, TLC

(***************************************************************************)
(* Characters                                                              *)
(***************************************************************************)

\* The printable ASCII characters, code 32 (space) to 126 (~), in code order.
Ascii ==
  << " ", "!", "\"", "#", "$", "%", "&", "'", "(", ")", "*", "+", ",", "-", ".", "/",
     "0", "1", "2", "3", "4", "5", "6", "7", "8", "9", ":", ";", "<", "=", ">", "?",
     "@", "A", "B", "C", "D", "E", "F", "G", "H", "I", "J", "K", "L", "M", "N", "O",
     "P", "Q", "R", "S", "T", "U", "V", "W", "X", "Y", "Z", "[", "\\", "]", "^", "_",
     "<GRAVE>", "a", "b", "c", "d", "e", "f", "g", "h", "i", "j", "k", "l", "m", "n", "o",
     "p", "q", "r", "s", "t", "u", "v", "w", "x", "y", "z", "{", "|", "}", "~" >>

Range(s) == { s[i] : i \in DOMAIN s }

Min(S) == CHOOSE x \in S : \A y \in S : x <= y
Max(S) == CHOOSE x \in S : \A y \in S : y <= x

AsciiCode == [ c \in Range(Ascii) |-> 31 + (CHOOSE i \in DOMAIN Ascii : Ascii[i] = c) ]

\* A control character other than tab, line feed and carriage return, and a
\* byte that is no ASCII character (decoded as U+FFFD), each as one character.
CtlChar == "<CTL>"
ReplacementChar == "<FFFD>"

\* Buffer.from(s, 'utf-8'): the bytes of a text (the model's texts are ASCII).
Utf8Encode(s) ==
  [ i \in DOMAIN s |->
      IF s[i] = "\n" THEN 10
      ELSE IF s[i] = "\t" THEN 9
      ELSE IF s[i] = "\r" THEN 13
      ELSE AsciiCode[s[i]] ]

\* buffer.toString('utf-8'): the text of a byte sequence. Bytes above 127 are
\* read one by one as U+FFFD; multi-byte characters are outside the model.
Utf8Decode(b) ==
  [ i \in DOMAIN b |->
      IF b[i] = 10 THEN "\n"
      ELSE IF b[i] = 9 THEN "\t"
      ELSE IF b[i] = 13 THEN "\r"
      ELSE IF b[i] < 32 THEN CtlChar
      ELSE IF b[i] <= 126 THEN Ascii[b[i] - 31]
      ELSE ReplacementChar ]

(***************************************************************************)
(* Base64 (Node's Buffer)                                                  *)
(***************************************************************************)

B64 ==
  << "A", "B", "C", "D", "E", "F", "G", "H", "I", "J", "K", "L", "M", "N", "O", "P",
     "Q", "R", "S", "T", "U", "V", "W", "X", "Y", "Z", "a", "b", "c", "d", "e", "f",
     "g", "h", "i", "j", "k", "l", "m", "n", "o", "p", "q", "r", "s", "t", "u", "v",
     "w", "x", "y", "z", "0", "1", "2", "3", "4", "5", "6", "7", "8", "9", "+", "/" >>

B64Value ==
  [ c \in Range(B64) \cup {"-", "_"} |->
      IF c = "-" THEN 62
      ELSE IF c = "_" THEN 63
      ELSE (CHOOSE i \in DOMAIN B64 : B64[i] = c) - 1 ]

\* buffer.toString('base64'): standard alphabet, padded with "=". Character
\* k (from 0) of the output is read from the three bytes of group k \div 4.
Base64Encode(b) ==
  LET byte(j) == IF j <= Len(b) THEN b[j] ELSE 0
      char(k) ==
        LET g == 3 * (k \div 4)
            r == k % 4
        IN IF r = 0 THEN B64[(byte(g + 1) \div 4) + 1]
           ELSE IF r = 1 THEN B64[((byte(g + 1) % 4) * 16) + (byte(g + 2) \div 16) + 1]
           ELSE IF r = 2 THEN
             (IF g + 2 > Len(b) THEN "="
              ELSE B64[((byte(g + 2) % 16) * 4) + (byte(g + 3) \div 64) + 1])
           ELSE (IF g + 3 > Len(b) THEN "=" ELSE B64[(byte(g + 3) % 64) + 1])
  IN [ k \in 1..(4 * ((Len(b) + 2) \div 3)) |-> char(k - 1) ]

\* The 6-bit values of the base64 characters of s up to its first "=":
\* Node skips characters outside the alphabet, reads "-" and "_" as the
\* URL-safe forms of "+" and "/", and stops at the padding.
Sextets(s) ==
  LET pads == { i \in DOMAIN s : s[i] = "=" }
      stop == IF pads = {} THEN Len(s) + 1
              ELSE CHOOSE i \in pads : \A j \in pads : i <= j
      kept == SelectSeq(SubSeq(s, 1, stop - 1), LAMBDA c : c \in DOMAIN B64Value)
  IN [ i \in DOMAIN kept |-> B64Value[kept[i]] ]

\* Byte j (from 0) is read from the four values of group j \div 3; a trailing
\* group of two values gives one byte, of three values two bytes.
SextetsToBytes(v) ==
  LET byte(j) ==
        LET g == 4 * (j \div 3)
            r == j % 3
        IN IF r = 0 THEN (v[g + 1] * 4) + (v[g + 2] \div 16)
           ELSE IF r = 1 THEN ((v[g + 2] % 16) * 16) + (v[g + 3] \div 4)
           ELSE ((v[g + 3] % 4) * 64) + v[g + 4]
  IN [ j \in 1..((Len(v) * 6) \div 8) |-> byte(j - 1) ]

\* Buffer.from(s, 'base64'): never fails, whatever s holds.
Base64Decode(s) == SextetsToBytes(Sextets(s))

(***************************************************************************)
(* JSON values: [num |-> n], [str |-> chars], [arr |-> values],            *)
(* [obj |-> members], [lit |-> "null" | "true" | "false"]; a JavaScript    *)
(* undefined (a missing array element) is [undef |-> TRUE].                *)
(***************************************************************************)

JNum(n) == [num |-> n]
JStr(s) == [str |-> s]
JArr(a) == [arr |-> a]
JObj(m) == [obj |-> m]
JNull == [lit |-> "null"]
JUndefined == [undef |-> TRUE]

IsNum(v) == DOMAIN v = {"num"}
IsStr(v) == DOMAIN v = {"str"}
IsArr(v) == DOMAIN v = {"arr"}
IsObj(v) == DOMAIN v = {"obj"}
IsUndefined(v) == DOMAIN v = {"undef"}

Digits == << "0", "1", "2", "3", "4", "5", "6", "7", "8", "9" >>

RECURSIVE NatChars(_)
NatChars(n) ==
  IF n < 10 THEN << Digits[n + 1] >>
  ELSE NatChars(n \div 10) \o << Digits[(n % 10) + 1] >>

IntChars(n) == IF n < 0 THEN << "-" >> \o NatChars(0 - n) ELSE NatChars(n)

\* The concatenation of a sequence of sequences.
RECURSIVE Concat(_)
Concat(ss) ==
  IF Len(ss) = 0 THEN << >>
  ELSE IF Len(ss) = 1 THEN ss[1]
  ELSE LET h == Len(ss) \div 2
       IN Concat(SubSeq(ss, 1, h)) \o Concat(SubSeq(ss, h + 1, Len(ss)))

EscapeChar(c) ==
  IF c = "\"" THEN << "\\", "\"" >>
  ELSE IF c = "\\" THEN << "\\", "\\" >>
  ELSE IF c = "\n" THEN << "\\", "n" >>
  ELSE IF c = "\t" THEN << "\\", "t" >>
  ELSE IF c = "\r" THEN << "\\", "r" >>
  ELSE << c >>

EscapeChars(s) == Concat([ i \in DOMAIN s |-> EscapeChar(s[i]) ])

QuoteChars(s) == << "\"" >> \o EscapeChars(s) \o << "\"" >>

LitChars(l) ==
  IF l = "true" THEN << "t", "r", "u", "e" >>
  ELSE IF l = "false" THEN << "f", "a", "l", "s", "e" >>
  ELSE << "n", "u", "l", "l" >>

\* The double Infinity, which a JSON number beyond the range of a double
\* is read as: a number above every number of the modelled payloads.
Infinity == 10 ^ 9
IsFinite(n) == 0 - Infinity < n /\ n < Infinity

\* JSON.stringify(value): no white space; an undefined array element and a
\* number that is not finite are null.
RECURSIVE JsonStringify(_)
RECURSIVE StringifyElems(_)
RECURSIVE StringifyMembers(_)
JsonStringify(v) ==
  IF IsNum(v) THEN (IF IsFinite(v.num) THEN IntChars(v.num) ELSE LitChars("null"))
  ELSE IF IsStr(v) THEN QuoteChars(v.str)
  ELSE IF IsArr(v) THEN << "[" >> \o StringifyElems(v.arr) \o << "]" >>
  ELSE IF IsObj(v) THEN << "{" >> \o StringifyMembers(v.obj) \o << "}" >>
  ELSE IF IsUndefined(v) THEN LitChars("null")
  ELSE LitChars(v.lit)

StringifyElems(a) ==
  IF Len(a) = 0 THEN << >>
  ELSE IF Len(a) = 1 THEN JsonStringify(a[1])
  ELSE JsonStringify(a[1]) \o << "," >> \o StringifyElems(Tail(a))

StringifyMembers(m) ==
  IF Len(m) = 0 THEN << >>
  ELSE QuoteChars(m[1].k) \o << ":" >> \o JsonStringify(m[1].v)
       \o (IF Len(m) = 1 THEN << >> ELSE << "," >> \o StringifyMembers(Tail(m)))

\* A parse step's result: the value read and the index after it, or a failure.
JOk(v, i) == [ok |-> TRUE, val |-> v, next |-> i]
JFail(i) == [ok |-> FALSE, val |-> JNull, next |-> i]

IsWs(c) == c \in {" ", "\n", "\t", "\r"}

RECURSIVE SkipWs(_, _)
SkipWs(s, i) == IF i <= Len(s) /\ IsWs(s[i]) THEN SkipWs(s, i + 1) ELSE i

\* The characters of a string literal from index i (after its opening quote).
\* The \uXXXX escape is outside the modelled payloads and is refused.
RECURSIVE ParseChars(_, _, _)
ParseChars(s, i, acc) ==
  IF i > Len(s) THEN JFail(i)
  ELSE IF s[i] = "\"" THEN JOk(JStr(acc), i + 1)
  ELSE IF s[i] = "\\" THEN
    IF i + 1 > Len(s) THEN JFail(i)
    ELSE IF s[i + 1] \in {"\"", "\\", "/"} THEN ParseChars(s, i + 2, Append(acc, s[i + 1]))
    ELSE IF s[i + 1] = "n" THEN ParseChars(s, i + 2, Append(acc, "\n"))
    ELSE IF s[i + 1] = "t" THEN ParseChars(s, i + 2, Append(acc, "\t"))
    ELSE IF s[i + 1] = "r" THEN ParseChars(s, i + 2, Append(acc, "\r"))
    ELSE JFail(i)
  ELSE IF s[i] \in {CtlChar, "\n", "\t", "\r"} THEN JFail(i)
  ELSE ParseChars(s, i + 1, Append(acc, s[i]))

IsDigit(c) == c \in Range(Digits)
DigitValue(c) == AsciiCode[c] - 48

RECURSIVE ParseDigits(_, _, _)
ParseDigits(s, i, acc) ==
  IF i <= Len(s) /\ IsDigit(s[i])
  THEN ParseDigits(s, i + 1, (acc * 10) + DigitValue(s[i]))
  ELSE [val |-> acc, next |-> i]

\* The exponent of a number, from the index after its e: digits, read
\* to the end. A mantissa that is not 0 under an exponent above 308 is
\* beyond the doubles and is Infinity.
WithExponent(s, i, neg, mantissa, e) ==
  IF e.next <= Len(s) /\ s[e.next] \in {".", "e", "E"} THEN JFail(i)
  ELSE IF mantissa = 0 THEN JOk(JNum(0), e.next)
  ELSE IF e.val > 308 THEN JOk(JNum(IF neg THEN 0 - Infinity ELSE Infinity), e.next)
  ELSE JOk(JNum((IF neg THEN 0 - mantissa ELSE mantissa) * (10 ^ e.val)), e.next)

NumberEnd(s, i, neg, d) ==
  IF d.next <= Len(s) /\ (IsDigit(s[d.next]) \/ s[d.next] = ".")
  THEN JFail(i)
  ELSE IF d.next <= Len(s) /\ s[d.next] \in {"e", "E"}
  THEN (IF d.next + 1 > Len(s) \/ ~IsDigit(s[d.next + 1]) THEN JFail(i)
        ELSE WithExponent(s, i, neg, d.val, ParseDigits(s, d.next + 1, 0)))
  ELSE JOk(JNum(IF neg THEN 0 - d.val ELSE d.val), d.next)

NumberFrom(s, i, neg, j) ==
  IF j > Len(s) \/ ~IsDigit(s[j]) THEN JFail(i)
  ELSE NumberEnd(s, i, neg,
                 IF s[j] = "0" THEN [val |-> 0, next |-> j + 1] ELSE ParseDigits(s, j, 0))

\* A number: -?(0|[1-9][0-9]*)([eE][0-9]+)?. Fractions and signed
\* exponents are outside the modelled payloads and are refused.
ParseNumber(s, i) == NumberFrom(s, i, s[i] = "-", IF s[i] = "-" THEN i + 1 ELSE i)

StartsWith(s, i, w) ==
  /\ i + Len(w) - 1 <= Len(s)
  /\ \A k \in DOMAIN w : s[i + k - 1] = w[k]

RECURSIVE ParseValue(_, _)
RECURSIVE ParseElems(_, _, _)
RECURSIVE ParseMembers(_, _, _)

\* After "[" and white space.
ArrayFrom(s, j) ==
  IF j <= Len(s) /\ s[j] = "]" THEN JOk(JArr(<< >>), j + 1)
  ELSE ParseElems(s, j, << >>)

\* After "{" and white space.
ObjectFrom(s, j) ==
  IF j <= Len(s) /\ s[j] = "}" THEN JOk(JObj(<< >>), j + 1)
  ELSE ParseMembers(s, j, << >>)

ParseValueAt(s, i) ==
  IF i > Len(s) THEN JFail(i)
  ELSE IF s[i] = "[" THEN ArrayFrom(s, SkipWs(s, i + 1))
  ELSE IF s[i] = "{" THEN ObjectFrom(s, SkipWs(s, i + 1))
  ELSE IF s[i] = "\"" THEN ParseChars(s, i + 1, << >>)
  ELSE IF s[i] = "-" \/ IsDigit(s[i]) THEN ParseNumber(s, i)
  ELSE IF StartsWith(s, i, LitChars("true")) THEN JOk([lit |-> "true"], i + 4)
  ELSE IF StartsWith(s, i, LitChars("false")) THEN JOk([lit |-> "false"], i + 5)
  ELSE IF StartsWith(s, i, LitChars("null")) THEN JOk(JNull, i + 4)
  ELSE JFail(i)

ParseValue(s, i0) == ParseValueAt(s, SkipWs(s, i0))

\* After the element r and white space: "," and more, or "]".
ElemsNext(s, i, acc, r, k) ==
  IF k > Len(s) THEN JFail(i)
  ELSE IF s[k] = "," THEN ParseElems(s, k + 1, Append(acc, r.val))
  ELSE IF s[k] = "]" THEN JOk(JArr(Append(acc, r.val)), k + 1)
  ELSE JFail(k)

ElemsAfter(s, i, acc, r) ==
  IF ~r.ok THEN JFail(i) ELSE ElemsNext(s, i, acc, r, SkipWs(s, r.next))

ParseElems(s, i, acc) == ElemsAfter(s, i, acc, ParseValue(s, i))

\* After the member key: r and white space: "," and more, or "}".
MembersNext(s, i, acc, key, r, k) ==
  IF k > Len(s) THEN JFail(i)
  ELSE IF s[k] = "," THEN ParseMembers(s, k + 1, Append(acc, [k |-> key.val.str, v |-> r.val]))
  ELSE IF s[k] = "}" THEN JOk(JObj(Append(acc, [k |-> key.val.str, v |-> r.val])), k + 1)
  ELSE JFail(k)

MembersValue(s, i, acc, key, r) ==
  IF ~r.ok THEN JFail(i) ELSE MembersNext(s, i, acc, key, r, SkipWs(s, r.next))

MembersColon(s, i, acc, key, c) ==
  MembersValue(s, i, acc, key,
               IF key.ok /\ c <= Len(s) /\ s[c] = ":" THEN ParseValue(s, c + 1) ELSE JFail(c))

MembersAt(s, i, acc, key) == MembersColon(s, i, acc, key, SkipWs(s, key.next))

MembersKey(s, i, acc) ==
  MembersAt(s, i, acc,
            IF i <= Len(s) /\ s[i] = "\"" THEN ParseChars(s, i + 1, << >>) ELSE JFail(i))

ParseMembers(s, i0, acc) == MembersKey(s, SkipWs(s, i0), acc)

JsonParsed(s, r) ==
  IF r.ok /\ SkipWs(s, r.next) = Len(s) + 1
  THEN [ok |-> TRUE, val |-> r.val]
  ELSE [ok |-> FALSE, val |-> JNull]

\* JSON.parse(text): one value, with nothing but white space around it.
JsonParse(s) == JsonParsed(s, ParseValue(s, 1))

(***************************************************************************)
(* The codec (decoder.ts). A graph is [nodes |-> <<node>>, edges |->       *)
(* <<edge>>]; an edge is a record with id, source, target and, when        *)
(* present, label and style; a style holds the fields present among        *)
(* bodyName, headName, offset. An optional value is << >> or <<value>>.    *)
(***************************************************************************)

\* a[k] of a JavaScript array (k counted from 0): undefined past its end.
Elem(a, k) == IF k + 1 <= Len(a) THEN a[k + 1] ELSE JUndefined

\* array.slice(start, end): a negative index counts from the end.
JsSlice(a, start, end) ==
  LET len == Len(a)
      from == IF start < 0 THEN (IF len + start < 0 THEN 0 ELSE len + start)
              ELSE (IF start > len THEN len ELSE start)
      to == IF end < 0 THEN (IF len + end < 0 THEN 0 ELSE len + end)
            ELSE (IF end > len THEN len ELSE end)
  IN SubSeq(a, from + 1, to)

\* The last member of an object with this key, or undefined.
RECURSIVE ObjGet(_, _)
ObjGet(m, key) ==
  IF Len(m) = 0 THEN JUndefined
  ELSE IF m[Len(m)].k = key THEN m[Len(m)].v
  ELSE ObjGet(SubSeq(m, 1, Len(m) - 1), key)

KeyBody == << "b", "o", "d", "y" >>
KeyHead == << "h", "e", "a", "d" >>
KeyName == << "n", "a", "m", "e" >>
KeyOffset == << "o", "f", "f", "s", "e", "t" >>

parseNode(nodeData, index) ==
  IF ~IsArr(nodeData) THEN [ok |-> FALSE]
  ELSE LET x == Elem(nodeData.arr, 0)
           y == Elem(nodeData.arr, 1)
           label == Elem(nodeData.arr, 2)
       IN IF ~IsNum(x) \/ ~IsNum(y) THEN [ok |-> FALSE]
          ELSE IF ~IsStr(label) THEN [ok |-> FALSE]
          ELSE [ok |-> TRUE,
                val |-> [id |-> index, x |-> x.num, y |-> y.num, label |-> label.str]]

\* The name of an options member (body or head), when the member is an
\* object whose name is a string.
PartName(name) == IF IsStr(name) THEN << name.str >> ELSE << >>

NamedPart(part) == PartName(IF IsObj(part) THEN ObjGet(part.obj, KeyName) ELSE JUndefined)

StyleIfAny(style) == IF DOMAIN style # {} THEN << style >> ELSE << >>

StyleOf(body, head, offset) ==
  StyleIfAny((IF body # << >> THEN [bodyName |-> body[1]] ELSE << >>)
             @@ (IF head # << >> THEN [headName |-> head[1]] ELSE << >>)
             @@ (IF IsNum(offset) THEN [offset |-> offset.num] ELSE << >>))

parseEdgeStyle(options) ==
  IF ~IsObj(options) THEN << >>
  ELSE StyleOf(NamedPart(ObjGet(options.obj, KeyBody)),
               NamedPart(ObjGet(options.obj, KeyHead)),
               ObjGet(options.obj, KeyOffset))

EdgeOf(index, source, target, parsedLabel, parsedStyle) ==
  [ok |-> TRUE,
   val |-> [id |-> index, source |-> source.num, target |-> target.num]
           @@ (IF parsedLabel # << >> THEN [label |-> parsedLabel[1]] ELSE << >>)
           @@ (IF parsedStyle # << >> THEN [style |-> parsedStyle[1]] ELSE << >>)]

EdgeFrom(index, source, target, label, options) ==
  IF ~IsNum(source) \/ ~IsNum(target) THEN [ok |-> FALSE]
  ELSE IF ~IsUndefined(label) /\ ~IsStr(label) THEN [ok |-> FALSE]
  ELSE EdgeOf(index, source, target,
              IF IsStr(label) /\ label.str # << >> THEN << label.str >> ELSE << >>,
              parseEdgeStyle(options))

parseEdge(edgeData, index) ==
  IF ~IsArr(edgeData) THEN [ok |-> FALSE]
  ELSE EdgeFrom(index, Elem(edgeData.arr, 0), Elem(edgeData.arr, 1),
                Elem(edgeData.arr, 2), Elem(edgeData.arr, 3))

DecodeError(encodedData) ==
  [ok |-> FALSE, error |-> [type |-> "decode-error", data |-> encodedData]]

DecodedParts(encodedData, nodes, edges) ==
  IF \E i \in DOMAIN nodes : ~nodes[i].ok THEN DecodeError(encodedData)
  ELSE IF \E i \in DOMAIN edges : ~edges[i].ok THEN DecodeError(encodedData)
  ELSE [ok |-> TRUE,
        val |-> [nodes |-> [ i \in DOMAIN nodes |-> nodes[i].val ],
                 edges |-> [ i \in DOMAIN edges |-> edges[i].val ]]]

DecodedSlices(encodedData, nodesData, edgesData) ==
  DecodedParts(encodedData,
               [ i \in DOMAIN nodesData |-> parseNode(nodesData[i], i - 1) ],
               [ i \in DOMAIN edgesData |-> parseEdge(edgesData[i], i - 1) ])

DecodedJson(encodedData, parsed) ==
  IF ~parsed.ok THEN DecodeError(encodedData)
  ELSE IF ~IsArr(parsed.val) THEN DecodeError(encodedData)
  ELSE IF Len(parsed.val.arr) < 2 THEN DecodeError(encodedData)
  ELSE IF ~IsNum(parsed.val.arr[2]) THEN DecodeError(encodedData)
  ELSE DecodedSlices(encodedData,
                     JsSlice(parsed.val.arr, 2, 2 + parsed.val.arr[2].num),
                     JsSlice(parsed.val.arr, 2 + parsed.val.arr[2].num, Len(parsed.val.arr)))

decodeQuiverData(encodedData) ==
  DecodedJson(encodedData, JsonParse(Utf8Decode(Base64Decode(encodedData))))

\* EdgeOptions that gives an options object for a style without fields too.
EdgeOptionsOfAnyStyle(edge) ==
  IF "style" \notin DOMAIN edge THEN << >>
  ELSE << JObj((IF "bodyName" \in DOMAIN edge.style
                THEN << [k |-> KeyBody, v |-> JObj(<< [k |-> KeyName, v |-> JStr(edge.style.bodyName)] >>)] >>
                ELSE << >>)
               \o (IF "headName" \in DOMAIN edge.style
                   THEN << [k |-> KeyHead, v |-> JObj(<< [k |-> KeyName, v |-> JStr(edge.style.headName)] >>)] >>
                   ELSE << >>)
               \o (IF "offset" \in DOMAIN edge.style
                   THEN << [k |-> KeyOffset, v |-> JNum(edge.style.offset)] >>
                   ELSE << >>)) >>

\* The options object of an edge's style, or << >> when no field is present.
EdgeOptions(edge) ==
  IF "style" \notin DOMAIN edge THEN << >>
  ELSE LET opts == (IF "bodyName" \in DOMAIN edge.style
                    THEN << [k |-> KeyBody, v |-> JObj(<< [k |-> KeyName, v |-> JStr(edge.style.bodyName)] >>)] >>
                    ELSE << >>)
                   \o (IF "headName" \in DOMAIN edge.style
                       THEN << [k |-> KeyHead, v |-> JObj(<< [k |-> KeyName, v |-> JStr(edge.style.headName)] >>)] >>
                       ELSE << >>)
                   \o (IF "offset" \in DOMAIN edge.style
                       THEN << [k |-> KeyOffset, v |-> JNum(edge.style.offset)] >>
                       ELSE << >>)
       IN IF Len(opts) > 0 THEN << JObj(opts) >> ELSE << >>

\* EdgeArray without the empty-label placeholder before the options.
EdgeArrayNoPlaceholder(edge) ==
  LET options == EdgeOptions(edge)
  IN << JNum(edge.source), JNum(edge.target) >>
     \o (IF "label" \in DOMAIN edge /\ edge.label # << >>
         THEN << JStr(edge.label) >> \o options
         ELSE options)

EdgeArray(edge) ==
  LET options == EdgeOptions(edge)
  IN << JNum(edge.source), JNum(edge.target) >>
     \o (IF "label" \in DOMAIN edge /\ edge.label # << >>
         THEN << JStr(edge.label) >> \o options
         ELSE IF options # << >> THEN << JStr(<< >>) >> \o options
         ELSE << >>)

\* The wire array [version, nodeCount, node..., edge...] of a graph.
QuiverData(data) ==
  << JNum(0), JNum(Len(data.nodes)) >>
  \o [ i \in DOMAIN data.nodes |->
         JArr(<< JNum(data.nodes[i].x), JNum(data.nodes[i].y), JStr(data.nodes[i].label) >>) ]
  \o [ i \in DOMAIN data.edges |-> JArr(EdgeArray(data.edges[i])) ]

encodeQuiverData(data) ==
  Base64Encode(Utf8Encode(JsonStringify(JArr(QuiverData(data)))))

(***************************************************************************)
(* Cache: a sequence of records [url, encodedData, imagePath, timestamp].  *)
(* An absent record is << >>, a present one << record >>.                  *)
(***************************************************************************)

\* Array.prototype.find: the first record with this url.
getCacheEntry(url, cache) ==
  LET hits == { i \in DOMAIN cache : cache[i].url = url }
  IN IF hits = {} THEN << >>
     ELSE << cache[Min(hits)] >>

\* addCacheEntry that appends and removes nothing.
addCacheEntryAppendOnly(cache, entry) == Append(cache, entry)

\* addCacheEntry that drops only the first record of the url.
addCacheEntryDropFirst(cache, entry) ==
  LET hits == { i \in DOMAIN cache : cache[i].url = entry.url }
      first == IF hits = {} THEN 0 ELSE CHOOSE i \in hits : \A j \in hits : i <= j
  IN Append([ k \in 1..(Len(cache) - (IF first = 0 THEN 0 ELSE 1)) |->
                IF first = 0 \/ k < first THEN cache[k] ELSE cache[k + 1] ],
            entry)

addCacheEntry(cache, entry) ==
  LET filteredCache == SelectSeq(cache, LAMBDA e : e.url # entry.url)
  IN Append(filteredCache, entry)

\* hasUrlChanged that reports a record of the url as unchanged whatever
\* payload it stores.
hasUrlChangedAnyPayload(url, encodedData, cache) ==
  getCacheEntry(url, cache) = << >>

hasUrlChanged(url, encodedData, cache) ==
  LET entry == getCacheEntry(url, cache)
  IN IF entry = << >> THEN TRUE
     ELSE entry[1].encodedData # encodedData

(***************************************************************************)
(* Splicer                                                                 *)
(***************************************************************************)

Clamp(k, len) == IF k < 0 THEN 0 ELSE IF k > len THEN len ELSE k

Between(s, a, b) ==
  IF a <= b THEN [ k \in 1..(b - a) |-> s[a + k] ] ELSE [ k \in 1..(a - b) |-> s[b + k] ]

\* String.prototype.substring(from, to): both clamped to 0..length and
\* swapped when from > to; offsets count from 0, to is exclusive.
Substring(s, from, to) == Between(s, Clamp(from, Len(s)), Clamp(to, Len(s)))

ImageRefOpen == << "[", "!", "[", "d", "i", "a", "g", "r", "a", "m", "]", "(" >>
ImageRefMiddle == << ")", "]", "(" >>
ImageRefClose == << ")" >>

imageRef(url, imagePath) ==
  ImageRefOpen \o imagePath \o ImageRefMiddle \o url.url \o ImageRefClose

\* replaceUrlWithImageRef that resumes one character after position.end.
replaceUrlWithImageRefSkipOne(content, url, imagePath) ==
  LET before == Substring(content, 0, url.position.start)
      after == Substring(content, url.position.end + 1, Len(content))
  IN before \o imageRef(url, imagePath) \o after

replaceUrlWithImageRef(content, url, imagePath) ==
  LET before == Substring(content, 0, url.position.start)
      after == Substring(content, url.position.end, Len(content))
  IN before \o imageRef(url, imagePath) \o after

(***************************************************************************)
(* Scanner (url-parser.ts). Offsets count from 0 and ends are exclusive,   *)
(* as in the code; s[k] of the model is the character at offset k - 1.     *)
(***************************************************************************)

\* "https://q.uiver.app/#q="
UrlPrefix ==
  << "h", "t", "t", "p", "s", ":", "/", "/", "q", ".", "u", "i", "v", "e", "r", ".", "a", "p", "p", "/", "#", "q", "=" >>

\* [A-Za-z0-9_-]
PayloadChars == (Range(B64) \ { "+", "/" }) \cup { "-", "_" }

\* Up to two "=" after the payload characters that end at runEnd.
PaddedEnd(s, runEnd) ==
  IF runEnd + 2 <= Len(s) /\ s[runEnd + 1] = "=" /\ s[runEnd + 2] = "=" THEN runEnd + 2
  ELSE IF runEnd + 1 <= Len(s) /\ s[runEnd + 1] = "=" THEN runEnd + 1
  ELSE runEnd

\* The end of the longest run of payload characters from offset p on.
RunEnd(s, stops) == IF stops = {} THEN Len(s) ELSE Min(stops) - 1

PayloadEnd(s, p, runEnd) == IF runEnd = p THEN -1 ELSE PaddedEnd(s, runEnd)

\* The end of the match of QUIVER_URL_PATTERN that starts at offset i, or -1
\* when the pattern does not match there: the prefix, the longest run of
\* one or more payload characters, then up to two "=".
MatchEnd(s, i) ==
  IF ~StartsWith(s, i + 1, UrlPrefix) THEN -1
  ELSE PayloadEnd(s, i + Len(UrlPrefix),
                  RunEnd(s, { k \in (i + Len(UrlPrefix) + 1)..Len(s) : s[k] \notin PayloadChars }))

MatchAt(s, found) ==
  IF found = {} THEN << >>
  ELSE << [index |-> Min(found), end |-> MatchEnd(s, Min(found))] >>

\* regex.exec: the leftmost match at or after lastIndex, if any.
ExecOnce(s, lastIndex) ==
  MatchAt(s, { i \in lastIndex..(Len(s) - 1) : MatchEnd(s, i) # -1 })

\* The loop of regex.exec on the global pattern: on from the end of each
\* match.
RECURSIVE ExecAll(_, _)
ExecMore(s, match) ==
  IF match = << >> THEN << >> ELSE match \o ExecAll(s, match[1].end)

ExecAll(s, lastIndex) == ExecMore(s, ExecOnce(s, lastIndex))

ParsedUrl(url, position, match) ==
  IF match = << >> THEN [ok |-> FALSE, error |-> [type |-> "url-parse-error", url |-> url]]
  ELSE [ok |-> TRUE,
        val |-> [url |-> url,
                 encodedData |-> Substring(url, match[1].index + Len(UrlPrefix), match[1].end),
                 position |-> position]]

parseQuiverUrl(url, position) == ParsedUrl(url, position, ExecOnce(url, 0))

LinkWindow == 200

\* IsBlank that takes only the empty string for blank.
IsBlankWhenEmpty(s) == s = << >>

\* trim() === ''
IsBlank(s) == \A k \in DOMAIN s : s[k] \in { " ", "\n", "\t", "\r" }

\* Whether only white space follows the last "](" of beforeUrl.
AfterLastLinkStart(beforeUrl, starts) ==
  IF starts = {} THEN FALSE
  ELSE IsBlank(Substring(beforeUrl, (Max(starts) - 1) + 2, Len(beforeUrl)))

EndsInLinkStart(beforeUrl) ==
  AfterLastLinkStart(beforeUrl,
                     { k \in 1..(Len(beforeUrl) - 1) : beforeUrl[k] = "]" /\ beforeUrl[k + 1] = "(" })

\* isUrlInLinkSyntax that takes no URL for the target of a link.
isUrlInLinkSyntaxNever(content, urlStart) == FALSE

isUrlInLinkSyntax(content, urlStart) ==
  EndsInLinkStart(Substring(content,
                            IF urlStart - LinkWindow > 0 THEN urlStart - LinkWindow ELSE 0,
                            urlStart))

\* MatchUrl that counts the position from the start of the match.
MatchUrlFromZero(content, match) ==
  parseQuiverUrl(Substring(content, match.index, match.end),
                 [start |-> 0, end |-> match.end - match.index])

MatchUrl(content, match) ==
  parseQuiverUrl(Substring(content, match.index, match.end),
                 [start |-> match.index, end |-> match.end])

ParsedMatches(content, matches) ==
  [ k \in DOMAIN matches |-> MatchUrl(content, matches[k]) ]

ValuesOf(results) == [ k \in DOMAIN results |-> results[k].val ]

extractQuiverUrls(content) ==
  ValuesOf(SelectSeq(ParsedMatches(content,
                                   SelectSeq(ExecAll(content, 0),
                                             LAMBDA m : ~isUrlInLinkSyntax(content, m.index))),
                     LAMBDA r : r.ok))

(***************************************************************************)
(* Artifact names (file-operations.ts)                                     *)
(***************************************************************************)

KeyId == << "i", "d" >>
KeyX == << "x" >>
KeyY == << "y" >>
KeyLabel == << "l", "a", "b", "e", "l" >>
KeySource == << "s", "o", "u", "r", "c", "e" >>
KeyTarget == << "t", "a", "r", "g", "e", "t" >>
KeyStyle == << "s", "t", "y", "l", "e" >>
KeyNodes == << "n", "o", "d", "e", "s" >>
KeyEdges == << "e", "d", "g", "e", "s" >>
KeyBodyName == << "b", "o", "d", "y", "N", "a", "m", "e" >>
KeyHeadName == << "h", "e", "a", "d", "N", "a", "m", "e" >>

Member(key, value) == << [k |-> key, v |-> value] >>

\* The object generateUniqueId serializes: the id, x, y, label of each node
\* and the id, source, target, label, style of each edge; JSON.stringify
\* leaves out a member whose value is undefined.
NormalizedData(data) ==
  LET node(n) == JObj(Member(KeyId, JNum(n.id)) \o Member(KeyX, JNum(n.x))
                      \o Member(KeyY, JNum(n.y)) \o Member(KeyLabel, JStr(n.label)))
      style(st) == JObj((IF "bodyName" \in DOMAIN st THEN Member(KeyBodyName, JStr(st.bodyName)) ELSE << >>)
                        \o (IF "headName" \in DOMAIN st THEN Member(KeyHeadName, JStr(st.headName)) ELSE << >>)
                        \o (IF "offset" \in DOMAIN st THEN Member(KeyOffset, JNum(st.offset)) ELSE << >>))
      edge(e) == JObj(Member(KeyId, JNum(e.id)) \o Member(KeySource, JNum(e.source))
                      \o Member(KeyTarget, JNum(e.target))
                      \o (IF "label" \in DOMAIN e THEN Member(KeyLabel, JStr(e.label)) ELSE << >>)
                      \o (IF "style" \in DOMAIN e THEN Member(KeyStyle, style(e.style)) ELSE << >>))
  IN JObj(Member(KeyNodes, JArr([ i \in DOMAIN data.nodes |-> node(data.nodes[i]) ]))
          \o Member(KeyEdges, JArr([ i \in DOMAIN data.edges |-> edge(data.edges[i]) ])))

RECURSIVE SumSeq(_, _, _)
SumSeq(w, lo, hi) ==
  IF lo > hi THEN 0
  ELSE IF lo = hi THEN w[lo]
  ELSE LET mid == (lo + hi) \div 2
       IN SumSeq(w, lo, mid) + SumSeq(w, mid + 1, hi)

HexDigits == << "0", "1", "2", "3", "4", "5", "6", "7", "8", "9", "a", "b", "c", "d", "e", "f" >>

Hex4(n) ==
  << HexDigits[((n \div 4096) % 16) + 1], HexDigits[((n \div 256) % 16) + 1],
     HexDigits[((n \div 16) % 16) + 1], HexDigits[(n % 16) + 1] >>

\* The first 8 hex digits of a digest of the bytes. SHA-256 is stood in for
\* by two 16-bit position-weighted sums: a function of the bytes alone, of
\* fixed width, that tells the model's graphs apart.
DigestHex8(bytes) ==
  LET w1 == [ i \in DOMAIN bytes |-> (bytes[i] * i) % 65536 ]
      w2 == [ i \in DOMAIN bytes |-> (bytes[i] * (bytes[i] + i)) % 65536 ]
  IN Hex4(SumSeq(w1, 1, Len(w1)) % 65536) \o Hex4(SumSeq(w2, 1, Len(w2)) % 65536)

generateUniqueId(data) ==
  LET normalized == JsonStringify(NormalizedData(data))
  IN DigestHex8(Utf8Encode(normalized))

DiagramInfix == << "-", "d", "i", "a", "g", "r", "a", "m", "-" >>

generateImageFileName(contentType, slug, data, extension) ==
  contentType \o << "-" >> \o slug \o DiagramInfix \o generateUniqueId(data)
  \o << "." >> \o extension

(***************************************************************************)
(* State                                                                   *)
(***************************************************************************)

VARIABLES
  op,           \* pure functions: the operation applied last ("input" before any)
  arg,          \* pure functions: the inputs drawn
  ret,          \* pure functions: the results so far
  impl,         \* which processMarkdownFile runs: "svg" (process-url.ts) or "image"
  configInput,  \* the input of the run-level config the caller passes
  cwd,          \* what relative paths resolve against: "markdownDir" or "other"
  docFile,      \* the text of the markdown file
  cacheFile,    \* the cache file: [kind, records]
  files,        \* the artifact files that exist, by their path from markdownDir
  pc,           \* where the save handler is: idle, loaded, reduce, save
  cache,        \* what loadCache returned to this run
  content,      \* what this run read from the markdown file
  todo,         \* the matches reduce has not reached yet, in its order
  state,        \* the accumulated ProcessState
  outcome,      \* how the last run ended: none (no run since the document
                \* was last edited), ok, or the error shown by
                \* showErrorNotification: url-error, write-error, save-error
  log,          \* this run's steps, one entry per match evaluated
  prev,         \* the run before this one: none, clean or failed, or
                \* edited when the document was edited after it
  writes,       \* the file writes of this run, in order: document, cache, or
                \* document-failed, cache-failed for a write that threw
  edit,         \* the edit of the document between two saves, << >> before
                \* it: [start, was, now], a URL and what its payload became
  waiting,      \* the invocations of the save handler that are suspended at
                \* an await while another one runs: their pc, cache, content,
                \* todo, state, outcome, log, prev and writes
  browserInstance,  \* png-generator.ts: the module's browserInstance, 0 for
                    \* null or the number of a browser launched
  browsers,     \* the browsers puppeteer.launch was called for, in order:
                \* launching, connected or closed
  calls         \* the calls of generatePngFromBrowser and closeBrowser under
                \* way: [pc, browser]

pureVars == << op, arg, ret >>
browserVars == << browserInstance, browsers, calls >>
envVars == << impl, configInput, cwd, edit, waiting, browserVars >>
fsVars == << docFile, cacheFile, files >>
runVars == << pc, cache, content, todo, state, outcome >>
obsVars == << log, prev, writes >>
pipelineVars == << envVars, fsVars, runVars, obsVars >>
vars == << pureVars, pipelineVars >>

\* The render collaborator of the pipeline is a choice of outcomes; the
\* browser behind it is followed on its own.
NoBrowser == browserInstance = 0 /\ browsers = << >> /\ calls = << >>

\* The pure-function specifications leave the pipeline out.
NoRun ==
  /\ impl = "none" /\ configInput = << >> /\ cwd = "other" /\ edit = << >>
  /\ waiting = << >> /\ NoBrowser
  /\ docFile = << >> /\ cacheFile = [kind |-> "missing", records |-> << >>] /\ files = {}
  /\ pc = "none" /\ cache = << >> /\ content = << >> /\ todo = << >>
  /\ state = << >> /\ outcome = "none"
  /\ log = << >> /\ prev = "none" /\ writes = << >>

(***************************************************************************)
(* The codec on well-formed graphs: encode, then decode.                   *)
(***************************************************************************)

MaxNodes == 2
MaxEdges == 1

\* Coordinates of one and two digits and negative; labels empty and with
\* characters JSON escapes.
NodeChoices ==
  { [x |-> 0, y |-> 0, label |-> << >>],
    [x |-> -1, y |-> 12, label |-> << "A", "\"", "\\" >>] }

\* The optional parts of an edge: no label or a non-empty one, no style or
\* one with at least one field.
EdgeShapes ==
  { << >>,
    [label |-> << "f" >>],
    [style |-> [offset |-> 0]],
    [label |-> << "g", "\\" >>, style |-> [bodyName |-> << >>]],
    [style |-> [bodyName |-> << "d" >>, headName |-> << "e", "p", "i" >>, offset |-> -3]],
    [label |-> << "f" >>, style |-> [headName |-> << "n" >>, offset |-> 10]] }

EndPoints(n) == { << 0, 0 >>, << 0, n - 1 >>, << n - 1, 0 >> }

\* Node ids 0..n-1 and edge ids 0..m-1 in order, edge endpoints in range.
WellFormedGraphs ==
  UNION { UNION { { [nodes |-> [ i \in 1..n |-> [id |-> i - 1] @@ ns[i] ],
                     edges |-> [ j \in 1..m |->
                                   [id |-> j - 1, source |-> es[j][1][1], target |-> es[j][1][2]]
                                   @@ es[j][2] ]]
                    : ns \in [1..n -> NodeChoices],
                      es \in [1..m -> EndPoints(n) \X EdgeShapes] }
                  : m \in 0..(IF n = 0 THEN 0 ELSE MaxEdges) }
          : n \in 0..MaxNodes }

InitCodec ==
  /\ op = "input"
  /\ arg \in { [data |-> g] : g \in WellFormedGraphs }
  /\ ret = << >>
  /\ NoRun

Encode ==
  /\ op = "input"
  /\ "data" \in DOMAIN arg
  /\ ret' = [encoded |-> encodeQuiverData(arg.data)]
  /\ op' = "encodeQuiverData"
  /\ UNCHANGED << arg, pipelineVars >>

Decode ==
  /\ op = "encodeQuiverData"
  /\ ret' = [encoded |-> ret.encoded, decoded |-> decodeQuiverData(ret.encoded)]
  /\ op' = "decodeQuiverData"
  /\ UNCHANGED << arg, pipelineVars >>

NextCodec == Encode \/ Decode

SpecCodec == InitCodec /\ [][NextCodec]_vars

\* C1: decoding the encoding of a well-formed graph succeeds and gives the
\* graph back: the same nodes and edges, field by field, absent labels and
\* styles and absent style fields still absent.
RoundTrip ==
  op = "decodeQuiverData" =>
    /\ ret.decoded.ok
    /\ ret.decoded.val = arg.data

\* A graph with an edge that has a style and no label (the placeholder
\* case) and an edge or node with a label, encoded and decoded.
RoundTripWitness ==
  /\ op = "decodeQuiverData"
  /\ Len(arg.data.nodes) = MaxNodes
  /\ \E e \in Range(arg.data.edges) :
       /\ "style" \in DOMAIN e
       /\ "label" \notin DOMAIN e
       /\ DOMAIN e.style = {"bodyName", "headName", "offset"}
  /\ ret.decoded.ok

(***************************************************************************)
(* The encoder on graphs whose edges have any label and style: a label     *)
(* that is there and empty, a style that is there without a field.         *)
(***************************************************************************)

EncoderEdgeShapes ==
  EdgeShapes
    \cup { [label |-> << >>],
           [style |-> << >>],
           [label |-> << >>, style |-> << >>],
           [label |-> << "f" >>, style |-> << >>],
           [label |-> << >>, style |-> [offset |-> 0]],
           [label |-> << >>, style |-> [bodyName |-> << "d" >>, headName |-> << >>]] }

MaxEncoderEdges == 2

EncoderGraphs ==
  UNION { { [nodes |-> << [id |-> 0, x |-> 0, y |-> 0, label |-> << >>],
                          [id |-> 1, x |-> 1, y |-> 0, label |-> << "B" >>] >>,
             edges |-> [ j \in 1..m |-> [id |-> j - 1, source |-> j - 1, target |-> 1] @@ es[j] ]]
            : es \in [1..m -> EncoderEdgeShapes] }
          : m \in 0..MaxEncoderEdges }

InitEncode ==
  /\ op = "input"
  /\ arg \in { [data |-> g] : g \in EncoderGraphs }
  /\ ret = << >>
  /\ NoRun

NextEncode == Encode

SpecEncode == InitEncode /\ [][NextEncode]_vars

\* The wire array an encoded payload holds.
WireOf(encoded) == JsonParse(Utf8Decode(Base64Decode(encoded))).val.arr

HasLabel(edge) == "label" \in DOMAIN edge /\ edge.label # << >>
HasStyleField(edge) ==
  /\ "style" \in DOMAIN edge
  /\ DOMAIN edge.style \cap { "bodyName", "headName", "offset" } # {}

\* The options object of a style, member by member.
IsOptionsOf(v, style) ==
  /\ "obj" \in DOMAIN v
  /\ { v.obj[i].k : i \in DOMAIN v.obj }
       = { KeyBody : x \in DOMAIN style \cap { "bodyName" } }
           \cup { KeyHead : x \in DOMAIN style \cap { "headName" } }
           \cup { KeyOffset : x \in DOMAIN style \cap { "offset" } }
  /\ "bodyName" \in DOMAIN style =>
       ObjGet(v.obj, KeyBody) = JObj(<< [k |-> KeyName, v |-> JStr(style.bodyName)] >>)
  /\ "headName" \in DOMAIN style =>
       ObjGet(v.obj, KeyHead) = JObj(<< [k |-> KeyName, v |-> JStr(style.headName)] >>)
  /\ "offset" \in DOMAIN style => ObjGet(v.obj, KeyOffset) = JNum(style.offset)

SerializedAs(e, edge) ==
  /\ Len(e) >= 2
  /\ e[1] = JNum(edge.source)
  /\ e[2] = JNum(edge.target)
  /\ Len(e) = 2 + (IF HasStyleField(edge) THEN 2 ELSE IF HasLabel(edge) THEN 1 ELSE 0)
  /\ HasLabel(edge) => e[3] = JStr(edge.label)
  /\ (HasStyleField(edge) /\ ~HasLabel(edge)) => e[3] = JStr(<< >>)
  /\ HasStyleField(edge) => IsOptionsOf(e[4], edge.style)

\* C17: every edge is serialized as [source, target], then the label when
\* it is not empty, then the options object when the style has a field;
\* with options and no label (absent or empty) an empty string stands in
\* the label's place, so the options are the fourth element, never the
\* third.
EdgeSerialization ==
  op = "encodeQuiverData" =>
    LET a == WireOf(ret.encoded)
        n == Len(arg.data.nodes)
    IN /\ Len(a) = 2 + n + Len(arg.data.edges)
       /\ \A j \in DOMAIN arg.data.edges :
            /\ "arr" \in DOMAIN a[2 + n + j]
            /\ SerializedAs(a[2 + n + j].arr, arg.data.edges[j])

\* A graph encoded that has an edge with a style field and an empty label
\* and an edge with a style without fields.
EdgeSerializationWitness ==
  /\ op = "encodeQuiverData"
  /\ \E e \in Range(arg.data.edges) :
       HasStyleField(e) /\ "label" \in DOMAIN e /\ e.label = << >>
  /\ \E e \in Range(arg.data.edges) :
       "style" \in DOMAIN e /\ ~HasStyleField(e)

(***************************************************************************)
(* The cache functions on record sequences of any content.                 *)
(***************************************************************************)

MaxRecords == 2

SomeUrls == { << "u" >>, << "v" >> }
SomePayloads == { << "P" >>, << "Q" >> }
SomeRecords ==
  [url : SomeUrls, encodedData : SomePayloads, imagePath : { << "i" >> }, timestamp : {1, 2}]

SeqsUpTo(S, n) == UNION { [1..k -> S] : k \in 0..n }

InitCache ==
  /\ op = "input"
  /\ arg \in [cache : SeqsUpTo(SomeRecords, MaxRecords), url : SomeUrls,
              encodedData : SomePayloads, entry : SomeRecords]
  /\ ret = << >>
  /\ NoRun

GetCacheEntry ==
  /\ op = "input"
  /\ "cache" \in DOMAIN arg
  /\ ret' = [entry |-> getCacheEntry(arg.url, arg.cache)]
  /\ op' = "getCacheEntry"
  /\ UNCHANGED << arg, pipelineVars >>

HasUrlChanged ==
  /\ op = "input"
  /\ "cache" \in DOMAIN arg
  /\ ret' = [changed |-> hasUrlChanged(arg.url, arg.encodedData, arg.cache)]
  /\ op' = "hasUrlChanged"
  /\ UNCHANGED << arg, pipelineVars >>

AddCacheEntry ==
  /\ op = "input"
  /\ "cache" \in DOMAIN arg
  /\ ret' = [cache |-> addCacheEntry(arg.cache, arg.entry)]
  /\ op' = "addCacheEntry"
  /\ UNCHANGED << arg, pipelineVars >>

\* The look-ups of processSingleUrl in the records addCacheEntry returned:
\* of the url of the entry added, and of the other url drawn.
LookUpAfterAdd ==
  /\ op = "addCacheEntry"
  /\ ret' = [cache |-> ret.cache,
             own |-> getCacheEntry(arg.entry.url, ret.cache),
             changed |-> hasUrlChanged(arg.entry.url, arg.entry.encodedData, ret.cache),
             other |-> getCacheEntry(arg.url, ret.cache)]
  /\ op' = "lookUp"
  /\ UNCHANGED << arg, pipelineVars >>

NextCache == GetCacheEntry \/ HasUrlChanged \/ AddCacheEntry \/ LookUpAfterAdd

SpecCache == InitCache /\ [][NextCache]_vars

AtMostOnePerUrl(records) ==
  \A i, j \in DOMAIN records : records[i].url = records[j].url => i = j

\* C6 as stated: hasUrlChanged is false exactly when some record of the url
\* stores the given payload.
UnchangedIffSomeRecordMatches ==
  op = "hasUrlChanged" =>
    (ret.changed = FALSE
       <=> \E i \in DOMAIN arg.cache :
             /\ arg.cache[i].url = arg.url
             /\ arg.cache[i].encodedData = arg.encodedData)

\* C6, amended: hasUrlChanged is false exactly when the first record of the
\* url stores the given payload, and true when the url has no record or its
\* first record stores another payload; with at most one record per url
\* that is "some record of the url stores the payload".
UnchangedIffFirstRecordMatches ==
  op = "hasUrlChanged" =>
    /\ ret.changed = FALSE
         <=> \E i \in DOMAIN arg.cache :
               /\ arg.cache[i].url = arg.url
               /\ \A j \in 1..(i - 1) : arg.cache[j].url # arg.url
               /\ arg.cache[i].encodedData = arg.encodedData
    /\ AtMostOnePerUrl(arg.cache) =>
         (ret.changed = FALSE
            <=> \E i \in DOMAIN arg.cache :
                  /\ arg.cache[i].url = arg.url
                  /\ arg.cache[i].encodedData = arg.encodedData)

\* A record of the url with the same payload is found: unchanged.
UnchangedWitness ==
  /\ op = "hasUrlChanged"
  /\ Len(arg.cache) = MaxRecords
  /\ AtMostOnePerUrl(arg.cache)
  /\ arg.cache[Len(arg.cache)].url = arg.url
  /\ ret.changed = FALSE

\* The positions of the records kept: those of another url.
KeptPositions(records, url) == { i \in DOMAIN records : records[i].url # url }

\* C7: the result of addCacheEntry ends with the new record; before it come
\* exactly the records of the other urls, each once, in their input order;
\* the input sequence is as it was.
AddIsFilterThenAppend ==
  op = "addCacheEntry" =>
    LET out == ret.cache
        kept == KeptPositions(arg.cache, arg.entry.url)
    IN /\ Len(out) = Cardinality(kept) + 1
       /\ out[Len(out)] = arg.entry
       /\ \A i \in kept :
            out[Cardinality({ j \in kept : j <= i })] = arg.cache[i]
       /\ \A k \in 1..(Len(out) - 1) : out[k].url # arg.entry.url

\* One record of the url dropped and one of another url kept.
AddWitness ==
  /\ op = "addCacheEntry"
  /\ Len(arg.cache) = MaxRecords
  /\ arg.cache[1].url # arg.entry.url
  /\ arg.cache[Len(arg.cache)].url = arg.entry.url
  /\ ret.cache = << arg.cache[1], arg.entry >>

\* C23: after addCacheEntry(c, e) the look-up of e.url gives e and
\* hasUrlChanged of e.url with e's payload is false, and the look-up of
\* any other url gives what it gave in c.
AddChangesOnlyOwnLookUp ==
  op = "lookUp" =>
    /\ ret.own = << arg.entry >>
    /\ ret.changed = FALSE
    /\ arg.url # arg.entry.url => ret.other = getCacheEntry(arg.url, arg.cache)

\* An entry added to records that held another record of its url and a
\* record of the other url, and both urls looked up.
AddLookUpWitness ==
  /\ op = "lookUp"
  /\ arg.url # arg.entry.url
  /\ \E i \in DOMAIN arg.cache :
       arg.cache[i].url = arg.entry.url /\ arg.cache[i] # arg.entry
  /\ ret.other # << >>
  /\ ret.own = << arg.entry >>

(***************************************************************************)
(* The splicer on any text, span and path.                                 *)
(***************************************************************************)

MaxText == 3

SomeChars == { "a", "]", "(" }
SomePaths == { << "p" >>, << "i", "/", "x" >> }
SomeTargets == { << >>, << "h", "#" >> }

InitSplice ==
  /\ op = "input"
  /\ \E text \in SeqsUpTo(SomeChars, MaxText) :
       arg \in [content : { text },
                url : [url : SomeTargets, encodedData : { << >> },
                       position : [start : -1..(Len(text) + 1),
                                   end : -1..(Len(text) + 1)]],
                imagePath : SomePaths]
  /\ ret = << >>
  /\ NoRun

ReplaceUrlWithImageRef ==
  /\ op = "input"
  /\ "imagePath" \in DOMAIN arg
  /\ ret' = [content |-> replaceUrlWithImageRef(arg.content, arg.url, arg.imagePath)]
  /\ op' = "replaceUrlWithImageRef"
  /\ UNCHANGED << arg, pipelineVars >>

NextSplice == ReplaceUrlWithImageRef

SpecSplice == InitSplice /\ [][NextSplice]_vars

\* C3: for a span with 0 <= start <= end <= len(text) the result is the
\* text before start, then "[![diagram](" path ")](" url ")", then the text
\* from end on: every character outside the span is kept, in order, and the
\* length changes by len(replacement) - (end - start).
SpliceIsolation ==
  (/\ op = "replaceUrlWithImageRef"
   /\ 0 <= arg.url.position.start
   /\ arg.url.position.start <= arg.url.position.end
   /\ arg.url.position.end <= Len(arg.content)) =>
    LET start == arg.url.position.start
        end == arg.url.position.end
        out == ret.content
        repl == << "[", "!", "[", "d", "i", "a", "g", "r", "a", "m", "]", "(" >>
                \o arg.imagePath \o << ")", "]", "(" >> \o arg.url.url \o << ")" >>
        delta == Len(repl) - (end - start)
    IN /\ Len(out) = Len(arg.content) + delta
       /\ \A k \in 1..start : out[k] = arg.content[k]
       /\ \A k \in 1..Len(repl) : out[start + k] = repl[k]
       /\ \A k \in (end + 1)..Len(arg.content) : out[k + delta] = arg.content[k]

\* A span strictly inside the text, with text kept on both sides.
SpliceWitness ==
  /\ op = "replaceUrlWithImageRef"
  /\ Len(arg.content) = MaxText
  /\ arg.url.position.start = 1
  /\ arg.url.position.end = 2
  /\ arg.url.url # << >>
  /\ ret.content[1] = arg.content[1]
  /\ ret.content[Len(ret.content)] = arg.content[MaxText]

(***************************************************************************)
(* The scanner on texts put together from a URL, the start of a link       *)
(* target, white space and other characters.                               *)
(***************************************************************************)

MaxTokens == 4

ShortUrl == UrlPrefix \o << "Q", "Q" >>
Blanks == [ k \in 1..(LinkWindow - 2) |-> " " ]
Tokens == { ShortUrl, << "]", "(" >>, << " " >>, << "x" >>, << "=" >>, Blanks }
Texts == { Concat(ts) : ts \in SeqsUpTo(Tokens, MaxTokens) }

InitScan ==
  /\ op = "input"
  /\ arg \in [text : Texts]
  /\ ret = << >>
  /\ NoRun

ExtractQuiverUrls ==
  /\ op = "input"
  /\ "text" \in DOMAIN arg
  /\ ret' = [urls |-> extractQuiverUrls(arg.text)]
  /\ op' = "extractQuiverUrls"
  /\ UNCHANGED << arg, pipelineVars >>

NextScan == ExtractQuiverUrls

SpecScan == InitScan /\ [][NextScan]_vars

\* The offsets of a text at which the fixed prefix stands with a payload
\* character after it.
PrefixOffsets(text) ==
  { i \in 0..(Len(text) - 1) :
      /\ i + Len(UrlPrefix) + 1 <= Len(text)
      /\ SubSeq(text, i + 1, i + Len(UrlPrefix)) = UrlPrefix
      /\ text[i + Len(UrlPrefix) + 1] \in PayloadChars }

\* The end of the occurrence of the pattern that starts at offset i: after
\* the prefix, all the payload characters there are, then "=" up to twice.
OccurrenceEnd(text, i) ==
  LET e == CHOOSE e \in (i + Len(UrlPrefix) + 1)..Len(text) :
             /\ \A k \in (i + Len(UrlPrefix) + 1)..e : text[k] \in PayloadChars
             /\ e < Len(text) => text[e + 1] \notin PayloadChars
      pad == IF e + 2 <= Len(text) /\ text[e + 1] = "=" /\ text[e + 2] = "=" THEN 2
             ELSE IF e + 1 <= Len(text) /\ text[e + 1] = "=" THEN 1
             ELSE 0
  IN e + pad

\* The offsets at which the pattern occurs, from left to right and each
\* occurrence past the end of the one before.
RECURSIVE OccurrencesFrom(_, _)
OccurrencesFrom(text, from) ==
  LET next == { i \in PrefixOffsets(text) : i >= from }
  IN IF next = {} THEN {}
     ELSE LET i == CHOOSE i \in next : \A j \in next : i <= j
          IN { i } \cup OccurrencesFrom(text, OccurrenceEnd(text, i))

Occurrences(text) == OccurrencesFrom(text, 0)

ReturnedStarts == { ret.urls[k].position.start : k \in DOMAIN ret.urls }

\* The occurrence at offset i comes right after "](".
RightAfterLinkStart(text, i) ==
  i >= 2 /\ text[i - 1] = "]" /\ text[i] = "("

\* Some "](" within the 200 characters before offset i has only white
\* space between it and offset i.
BlankAfterLinkStart(text, i) ==
  \E j \in 0..(i - 2) :
    /\ j >= i - 200
    /\ text[j + 1] = "]" /\ text[j + 2] = "("
    /\ \A k \in (j + 3)..i : text[k] \in { " ", "\n", "\t", "\r" }

SpansOrderedAndExact ==
  op = "extractQuiverUrls" =>
    /\ \A k \in DOMAIN ret.urls :
         /\ 0 <= ret.urls[k].position.start
         /\ ret.urls[k].position.start <= ret.urls[k].position.end
         /\ ret.urls[k].position.end <= Len(arg.text)
         /\ SubSeq(arg.text, ret.urls[k].position.start + 1, ret.urls[k].position.end)
              = ret.urls[k].url
         /\ ret.urls[k].url
              = << "h", "t", "t", "p", "s", ":", "/", "/", "q", ".", "u", "i", "v", "e", "r",
                   ".", "a", "p", "p", "/", "#", "q", "=" >> \o ret.urls[k].encodedData
         /\ ret.urls[k].encodedData # << >>
    /\ \A k \in 1..(Len(ret.urls) - 1) :
         /\ ret.urls[k].position.end <= ret.urls[k + 1].position.start
         /\ ret.urls[k].position.start < ret.urls[k + 1].position.start

\* Two matches of one text, the first with a padded payload.
SpansWitness ==
  /\ op = "extractQuiverUrls"
  /\ Len(ret.urls) = 2
  /\ ret.urls[1].encodedData = << "Q", "Q", "=" >>
  /\ ret.urls[1].position.start = 0
  /\ ret.urls[2].position.start = ret.urls[1].position.end + 1

(***************************************************************************)
(* The decoder on payloads of any content: the base64 of a JSON text that  *)
(* is or is not a wire array, of a JSON text cut short, and the same       *)
(* payloads with the padding taken off or a foreign character put in.      *)
(***************************************************************************)

MaxWire == 3

\* What a wire array is made of: numbers, a string, a node, an array too
\* short for a node and too short for an edge, and a node whose label is
\* a number.
WireElems ==
  { JNum(0), JNum(1), JStr(<< "A" >>),
    JArr(<< JNum(0), JNum(0), JStr(<< >>) >>),
    JArr(<< JNum(0) >>),
    JArr(<< JNum(0), JNum(0), JNum(0) >>) }

WireValues ==
  { JArr(a) : a \in SeqsUpTo(WireElems, MaxWire) }
    \cup { JNum(0), JStr(<< >>), JNull, JObj(<< >>) }

\* The JSON text of a value, whole or without its last character.
WireTexts ==
  UNION { { JsonStringify(v),
            SubSeq(JsonStringify(v), 1, Len(JsonStringify(v)) - 1) }
          : v \in WireValues }

Unpadded(s) == SelectSeq(s, LAMBDA c : c # "=")
WithForeign(s) ==
  IF Len(s) < 4 THEN s \o << "!" >>
  ELSE SubSeq(s, 1, 4) \o << "!" >> \o SubSeq(s, 5, Len(s))

DecoderPayloads ==
  UNION { { Base64Encode(Utf8Encode(t)),
            Unpadded(Base64Encode(Utf8Encode(t))),
            WithForeign(Base64Encode(Utf8Encode(t))) }
          : t \in WireTexts }

\* Edges with a label, with options that give no style (no member, a body
\* without name), and with options that give one.
StyledEdges ==
  { JArr(<< JNum(0), JNum(0), JStr(<< "f" >>) >>),
    JArr(<< JNum(0), JNum(0), JStr(<< >>), JObj(<< >>) >>),
    JArr(<< JNum(0), JNum(0), JStr(<< >>), JObj(<< [k |-> KeyBody, v |-> JObj(<< >>)] >>) >>),
    JArr(<< JNum(0), JNum(0), JStr(<< >>), JObj(<< [k |-> KeyOffset, v |-> JNum(0)] >>) >>),
    JArr(<< JNum(0), JNum(0), JStr(<< "f" >>),
            JObj(<< [k |-> KeyBody, v |-> JObj(<< [k |-> KeyName, v |-> JStr(<< >>)] >>)],
                    [k |-> KeyHead, v |-> JObj(<< [k |-> KeyName, v |-> JStr(<< "A" >>)] >>)] >>) >>) }

\* [0,1,[1e999,0,""]]: a node whose x is beyond the range of a double.
HugeXText ==
  << "[", "0", ",", "1", ",", "[", "1", "e", "9", "9", "9", ",", "0", ",", "\"", "\"", "]", "]" >>

\* The payloads of one node under one of these edges, and of the node
\* whose x is out of range.
StyledPayloads ==
  { Base64Encode(Utf8Encode(JsonStringify(
      JArr(<< JNum(0), JNum(1), JArr(<< JNum(0), JNum(0), JStr(<< "A" >>) >>), e >>))))
    : e \in StyledEdges }
    \cup { Base64Encode(Utf8Encode(HugeXText)) }

InitDecode ==
  /\ op = "input"
  /\ arg \in [encodedData : DecoderPayloads \cup StyledPayloads]
  /\ ret = << >>
  /\ NoRun

DecodeQuiverData ==
  /\ op = "input"
  /\ "encodedData" \in DOMAIN arg
  /\ ret' = [result |-> decodeQuiverData(arg.encodedData)]
  /\ op' = "decodeQuiverData"
  /\ UNCHANGED << arg, pipelineVars >>

\* The graph decoded is encoded and the payload decoded again.
ReEncode ==
  /\ op = "decodeQuiverData"
  /\ ret.result.ok
  /\ ret' = [result |-> ret.result,
             encoded |-> encodeQuiverData(ret.result.val),
             again |-> decodeQuiverData(encodeQuiverData(ret.result.val))]
  /\ op' = "reEncode"
  /\ UNCHANGED << arg, pipelineVars >>

NextDecode == DecodeQuiverData \/ ReEncode

SpecDecode == InitDecode /\ [][NextDecode]_vars

\* Base64 in the widest reading: characters of the standard or of the
\* URL-safe alphabet, then at most two "=", the padding there or not.
IsBase64(s) ==
  \E n \in 0..2 :
    /\ n <= Len(s)
    /\ \A i \in 1..(Len(s) - n) : s[i] \in DOMAIN B64Value
    /\ \A i \in (Len(s) - n + 1)..Len(s) : s[i] = "="
    /\ (Len(s) - n) % 4 # 1
    /\ n > 0 => Len(s) % 4 = 0

\* The JSON value a payload stands for, read strictly: none when the
\* payload is not base64.
IsNodeArray(v) ==
  /\ IsArr(v)
  /\ Len(v.arr) = 3
  /\ IsNum(v.arr[1]) /\ IsNum(v.arr[2]) /\ IsStr(v.arr[3])

HasEndPoints(v) ==
  /\ IsArr(v)
  /\ Len(v.arr) >= 2
  /\ IsNum(v.arr[1]) /\ IsNum(v.arr[2])

\* One of the conditions under which decoding has to fail.
MustFail(s) ==
  LET parsed == JsonParse(Utf8Decode(Base64Decode(s)))
  IN \/ ~IsBase64(s)
     \/ ~parsed.ok
     \/ ~IsArr(parsed.val)
     \/ Len(parsed.val.arr) < 2
     \/ ~IsNum(parsed.val.arr[2])
     \/ LET a == parsed.val.arr
            n == a[2].num
        IN \/ \E i \in 3..(2 + n) : i <= Len(a) /\ ~IsNodeArray(a[i])
           \/ \E i \in (3 + n)..Len(a) : ~HasEndPoints(a[i])

IsDecodeErrorOf(r, s) ==
  /\ ~r.ok
  /\ r.error.type = "decode-error"
  /\ r.error.data = s

\* C16: decodeQuiverData fails with a decode error carrying the payload
\* whenever the payload is not base64, its bytes are not JSON, the JSON is
\* not an array of two or more elements, the second element is not a
\* number, one of the nodeCount elements after it is not [number, number,
\* string], or an element after those has no numeric source and target.
DecodeFailsOnEveryMalformedPayload ==
  op = "decodeQuiverData" =>
    (MustFail(arg.encodedData) => IsDecodeErrorOf(ret.result, arg.encodedData))

\* C24: a successful decode returns exactly nodeCount nodes, the i-th node
\* element of the payload with id i from 0, and every element after them
\* as an edge whose id is its place among the edges from 0.
DecodeCountsAndIds ==
  (op = "decodeQuiverData" /\ ret.result.ok) =>
    LET a == WireOf(arg.encodedData)
        n == a[2].num
        g == ret.result.val
    IN /\ Len(g.nodes) = n
       /\ \A i \in DOMAIN g.nodes :
            /\ g.nodes[i].id = i - 1
            /\ 2 + i <= Len(a)
            /\ a[2 + i] = JArr(<< JNum(g.nodes[i].x), JNum(g.nodes[i].y), JStr(g.nodes[i].label) >>)
       /\ Len(g.edges) = Len(a) - 2 - n
       /\ \A j \in DOMAIN g.edges :
            /\ g.edges[j].id = j - 1
            /\ 2 + n + j <= Len(a)
            /\ HasEndPoints(a[2 + n + j])
            /\ a[2 + n + j].arr[1] = JNum(g.edges[j].source)
            /\ a[2 + n + j].arr[2] = JNum(g.edges[j].target)

\* C30: decoding is stable under re-encoding: the graph decoded from the
\* encoding of a decoded graph is that graph. The encoding starts with
\* version 0 and the number of nodes of the graph, and no edge decoded has
\* an empty label or a style without fields.
DecodeStableUnderReEncoding ==
  /\ op = "reEncode" =>
       /\ ret.again = ret.result
       /\ WireOf(ret.encoded)[1] = JNum(0)
       /\ WireOf(ret.encoded)[2] = JNum(Len(ret.result.val.nodes))
  /\ (op \in { "decodeQuiverData", "reEncode" } /\ ret.result.ok) =>
       \A e \in Range(ret.result.val.edges) :
         /\ "label" \in DOMAIN e => e.label # << >>
         /\ "style" \in DOMAIN e => DOMAIN e.style # {}

(***************************************************************************)
(* loadCache on a cache file that is missing, unreadable, or holds any     *)
(* text. The pipeline below starts from files already read: missing, or an *)
(* array of records.                                                       *)
(***************************************************************************)

MaxCacheTokens == 4

\* fs.readFile(path, 'utf-8'): the text, or a throw.
ReadFile(file) ==
  IF file.kind = "text" THEN [ok |-> TRUE, text |-> file.text] ELSE [ok |-> FALSE]

\* loadCache without its catch: a failed read or parse is thrown on.
loadCacheTextNoCatch(read, parsed) ==
  IF ~read.ok THEN [threw |-> TRUE, records |-> << >>]
  ELSE IF ~parsed.ok THEN [threw |-> TRUE, records |-> << >>]
  ELSE IF ~IsArr(parsed.val) THEN [threw |-> FALSE, records |-> << >>]
  ELSE [threw |-> FALSE, records |-> parsed.val.arr]

\* The body of loadCache: a throw of readFile or of JSON.parse is caught
\* and gives [], a value that is no array gives [], an array is returned
\* as it is.
loadCacheText(read, parsed) ==
  IF ~read.ok THEN [threw |-> FALSE, records |-> << >>]
  ELSE IF ~parsed.ok THEN [threw |-> FALSE, records |-> << >>]
  ELSE IF ~IsArr(parsed.val) THEN [threw |-> FALSE, records |-> << >>]
  ELSE [threw |-> FALSE, records |-> parsed.val.arr]

loadCacheFile(file) ==
  loadCacheText(ReadFile(file),
                IF file.kind = "text" THEN JsonParse(file.text) ELSE [ok |-> FALSE])

\* The JSON text of a record, cut down to its url.
RecordText ==
  JsonStringify(JObj(<< [k |-> << "u", "r", "l" >>, v |-> JStr(<< "u" >>)] >>))

CacheTokens ==
  { << "[" >>, << "]" >>, << "," >>, << " " >>, << "0" >>, << "{" >>, RecordText }

CacheTexts == { Concat(ts) : ts \in SeqsUpTo(CacheTokens, MaxCacheTokens) }

DiskFiles ==
  { [kind |-> "missing"], [kind |-> "unreadable"] }
    \cup { [kind |-> "text", text |-> t] : t \in CacheTexts }

InitLoad ==
  /\ op = "input"
  /\ arg \in [file : DiskFiles]
  /\ ret = << >>
  /\ NoRun

LoadCacheFile ==
  /\ op = "input"
  /\ "file" \in DOMAIN arg
  /\ ret' = loadCacheFile(arg.file)
  /\ op' = "loadCache"
  /\ UNCHANGED << arg, pipelineVars >>

NextLoad == LoadCacheFile

SpecLoad == InitLoad /\ [][NextLoad]_vars

\* The text of a file is a JSON array.
HoldsArray(file) ==
  /\ file.kind = "text"
  /\ JsonParse(file.text).ok
  /\ IsArr(JsonParse(file.text).val)

\* C20: loadCache never raises; it returns no record when the file is
\* missing or unreadable, when its text is not JSON and when the JSON is
\* not an array, and the stored array otherwise.
LoadCacheIsTolerant ==
  op = "loadCache" =>
    /\ ~ret.threw
    /\ ~HoldsArray(arg.file) => ret.records = << >>
    /\ HoldsArray(arg.file) => ret.records = JsonParse(arg.file.text).val.arr
    /\ arg.file = [kind |-> "text", text |-> << "[" >> \o RecordText \o << "]" >>] =>
         /\ Len(ret.records) = 1
         /\ ObjGet(ret.records[1].obj, << "u", "r", "l" >>) = JStr(<< "u" >>)

\* loadCache returned [] for a file that holds a record outside an array.
LoadCacheWitness ==
  /\ op = "loadCache"
  /\ arg.file = [kind |-> "text", text |-> RecordText]
  /\ ret = [threw |-> FALSE, records |-> << >>]

(***************************************************************************)
(* validateDiagramData on graphs whose fields hold values of any type: a   *)
(* field is a JSON value, an optional field is in the record or not.       *)
(***************************************************************************)

MaxValidated == 2

\* rec.name, undefined when the record has no such field.
Field(rec, name) == IF name \in DOMAIN rec THEN rec[name] ELSE JUndefined

NodeTyped(node) ==
  /\ IsNum(Field(node, "id")) /\ IsNum(Field(node, "x"))
  /\ IsNum(Field(node, "y")) /\ IsStr(Field(node, "label"))

\* The node loop: false at the first node that is ill-typed or whose id
\* is in nodeIds already.
NodesValid(nodes) ==
  /\ \A i \in DOMAIN nodes : NodeTyped(nodes[i])
  /\ \A i, j \in DOMAIN nodes : i < j => nodes[i].id # nodes[j].id

StyleTyped(style) ==
  /\ IsUndefined(Field(style, "bodyName")) \/ IsStr(Field(style, "bodyName"))
  /\ IsUndefined(Field(style, "headName")) \/ IsStr(Field(style, "headName"))
  /\ IsUndefined(Field(style, "offset")) \/ IsNum(Field(style, "offset"))

EdgeTyped(edge) ==
  /\ IsNum(Field(edge, "id")) /\ IsNum(Field(edge, "source"))
  /\ IsNum(Field(edge, "target"))

\* The edge loop without the look-up of source and target in nodeIds.
EdgesValidAnyEndPoints(nodes, edges) ==
  /\ \A i \in DOMAIN edges : EdgeTyped(edges[i])
  /\ \A i, j \in DOMAIN edges : i < j => edges[i].id # edges[j].id
  /\ \A i \in DOMAIN edges :
       /\ IsUndefined(Field(edges[i], "label")) \/ IsStr(Field(edges[i], "label"))
       /\ "style" \in DOMAIN edges[i] => StyleTyped(edges[i].style)

\* The edge loop: types of id, source, target; id not in edgeIds already;
\* source and target in nodeIds; types of label and of the style fields.
EdgesValid(nodes, edges) ==
  /\ \A i \in DOMAIN edges : EdgeTyped(edges[i])
  /\ \A i, j \in DOMAIN edges : i < j => edges[i].id # edges[j].id
  /\ \A i \in DOMAIN edges :
       /\ \E k \in DOMAIN nodes : nodes[k].id = edges[i].source
       /\ \E k \in DOMAIN nodes : nodes[k].id = edges[i].target
       /\ IsUndefined(Field(edges[i], "label")) \/ IsStr(Field(edges[i], "label"))
       /\ "style" \in DOMAIN edges[i] => StyleTyped(edges[i].style)

MetadataValid(data) ==
  "metadata" \in DOMAIN data =>
    /\ IsUndefined(Field(data.metadata, "width")) \/ IsNum(Field(data.metadata, "width"))
    /\ IsUndefined(Field(data.metadata, "height")) \/ IsNum(Field(data.metadata, "height"))

validateDiagramData(data) ==
  /\ NodesValid(data.nodes)
  /\ EdgesValid(data.nodes, data.edges)
  /\ MetadataValid(data)

GoodNode(n) == [id |-> JNum(n), x |-> JNum(n), y |-> JNum(0), label |-> JStr(<< "A" >>)]

\* Nodes of id 0 and 1 and nodes with one field of another type.
NodeVariants ==
  { GoodNode(0), GoodNode(1),
    [GoodNode(0) EXCEPT !.id = JStr(<< "0" >>)],
    [GoodNode(0) EXCEPT !.x = JStr(<< "0" >>)],
    [GoodNode(1) EXCEPT !.y = JNull],
    [GoodNode(1) EXCEPT !.label = JNum(0)] }

PlainEdge(n, s, t) == [id |-> JNum(n), source |-> JNum(s), target |-> JNum(t)]

\* Edges between the nodes 0 and 1 and to a node 2 that no graph has.
PlainEdges == { PlainEdge(0, 0, 0), PlainEdge(1, 0, 1), PlainEdge(1, 2, 0), PlainEdge(0, 1, 2) }

\* Edges with and without label and style, and with one field of another
\* type.
EdgeVariants ==
  PlainEdges
    \cup { PlainEdge(0, 1, 0) @@ [label |-> JStr(<< "f" >>)],
           PlainEdge(1, 0, 0) @@ [label |-> JNum(0)],
           PlainEdge(0, 0, 1) @@ [style |-> << >>],
           PlainEdge(1, 1, 1) @@ [style |-> [bodyName |-> JStr(<< "d" >>),
                                            headName |-> JStr(<< >>), offset |-> JNum(1)]],
           PlainEdge(0, 0, 0) @@ [style |-> [bodyName |-> JNum(0)]],
           PlainEdge(0, 0, 0) @@ [style |-> [headName |-> JNull]],
           PlainEdge(0, 0, 0) @@ [style |-> [offset |-> JStr(<< "1" >>)]],
           [PlainEdge(0, 0, 0) EXCEPT !.id = JStr(<< "0" >>)],
           [PlainEdge(0, 0, 0) EXCEPT !.source = JStr(<< "0" >>)],
           [PlainEdge(0, 0, 0) EXCEPT !.target = JNull] }

MetadataVariants ==
  { << >>,
    [metadata |-> << >>],
    [metadata |-> [width |-> JNum(1), height |-> JNum(1)]],
    [metadata |-> [width |-> JStr(<< "1" >>)]],
    [metadata |-> [width |-> JNum(1), height |-> JStr(<< "1" >>)]] }

\* Any nodes under no edge or one plain edge; the nodes 0 and 1 under any
\* edges and metadata.
ValidatedGraphs ==
  { [nodes |-> ns, edges |-> es]
      : ns \in SeqsUpTo(NodeVariants, MaxValidated),
        es \in SeqsUpTo(PlainEdges, 1) }
    \cup { [nodes |-> << GoodNode(0), GoodNode(1) >>, edges |-> es] @@ md
             : es \in SeqsUpTo(EdgeVariants, MaxValidated), md \in MetadataVariants }

InitValidate ==
  /\ op = "input"
  /\ arg \in [data : ValidatedGraphs]
  /\ ret = << >>
  /\ NoRun

ValidateDiagramData ==
  /\ op = "input"
  /\ "data" \in DOMAIN arg
  /\ ret' = [valid |-> validateDiagramData(arg.data)]
  /\ op' = "validateDiagramData"
  /\ UNCHANGED << arg, pipelineVars >>

NextValidate == ValidateDiagramData

SpecValidate == InitValidate /\ [][NextValidate]_vars

\* The values of a field over the records of a sequence that have it.
ValuesAt(recs, name) == { recs[i][name] : i \in { k \in DOMAIN recs : name \in DOMAIN recs[k] } }

\* A field that is there holds a value of its type.
HasType(rec, name, type) == name \in DOMAIN rec => DOMAIN rec[name] = { type }

\* Every field of the graph is there when it has to be and of its type.
DeclaredTypes(data) ==
  /\ \A n \in Range(data.nodes) :
       /\ { "id", "x", "y", "label" } \subseteq DOMAIN n
       /\ HasType(n, "id", "num") /\ HasType(n, "x", "num")
       /\ HasType(n, "y", "num") /\ HasType(n, "label", "str")
  /\ \A e \in Range(data.edges) :
       /\ { "id", "source", "target" } \subseteq DOMAIN e
       /\ HasType(e, "id", "num") /\ HasType(e, "source", "num")
       /\ HasType(e, "target", "num") /\ HasType(e, "label", "str")
       /\ "style" \in DOMAIN e =>
            /\ HasType(e.style, "bodyName", "str")
            /\ HasType(e.style, "headName", "str")
            /\ HasType(e.style, "offset", "num")
  /\ "metadata" \in DOMAIN data =>
       /\ HasType(data.metadata, "width", "num")
       /\ HasType(data.metadata, "height", "num")

StyleData(style) ==
  (IF "bodyName" \in DOMAIN style THEN [bodyName |-> JStr(style.bodyName)] ELSE << >>)
    @@ (IF "headName" \in DOMAIN style THEN [headName |-> JStr(style.headName)] ELSE << >>)
    @@ (IF "offset" \in DOMAIN style THEN [offset |-> JNum(style.offset)] ELSE << >>)

NodeData(n) == [id |-> JNum(n.id), x |-> JNum(n.x), y |-> JNum(n.y), label |-> JStr(n.label)]

EdgeData(e) ==
  [id |-> JNum(e.id), source |-> JNum(e.source), target |-> JNum(e.target)]
    @@ (IF "label" \in DOMAIN e THEN [label |-> JStr(e.label)] ELSE << >>)
    @@ (IF "style" \in DOMAIN e THEN [style |-> StyleData(e.style)] ELSE << >>)

DiagramDataOf(g) ==
  [nodes |-> [ i \in DOMAIN g.nodes |-> NodeData(g.nodes[i]) ],
   edges |-> [ i \in DOMAIN g.edges |-> EdgeData(g.edges[i]) ]]

\* C25: every graph that decodeQuiverData returns satisfies
\* validateDiagramData; each edge's source and target are ids of its nodes.
DecodedGraphIsValid ==
  (op = "decodeQuiverData" /\ ret.result.ok) =>
    /\ validateDiagramData(DiagramDataOf(ret.result.val))
    /\ \A e \in Range(ret.result.val.edges) :
         { e.source, e.target } \subseteq { n.id : n \in Range(ret.result.val.nodes) }

(***************************************************************************)
(* The pipeline: handleMarkdownSave (extension.ts) running                 *)
(* processMarkdownFile on one document, <workspaceRoot>/articles/a.md.     *)
(* Two versions of processMarkdownFile are part of the sources and are     *)
(* both modelled: "svg" (process-url.ts), which renders from the run-level *)
(* config and keeps its images beside the document, and "image", which     *)
(* sets the config input per URL and keeps them under the workspace root.  *)
(***************************************************************************)

ContentType == << "a", "r", "t", "i", "c", "l", "e" >>
MarkdownSlug == << "a" >>

\* path.relative(markdownDir, imagesDir)
ImagesDirFromMarkdownDir(i) == IF i = "svg" THEN << "i", "m", "a", "g", "e", "s" >> ELSE << ".", ".", "/", "i", "m", "a", "g", "e", "s" >>

\* The svg version names its files through a two-argument
\* generateImageFileName; the template of file-operations.ts is used for
\* it, with the extension svg.
ImageExtension(i) == IF i = "svg" THEN << "s", "v", "g" >> ELSE << "p", "n", "g" >>

\* path.relative(markdownDir, path.join(imagesDir, fileName))
RelativeImagePath(i, data) ==
  ImagesDirFromMarkdownDir(i) \o << "/" >>
  \o generateImageFileName(ContentType, MarkdownSlug, data, ImageExtension(i))

loadCache(file) == IF file.kind = "array" THEN file.records ELSE << >>

\* fs.access of a path: a relative path resolves against the working
\* directory of the process.
fileExists(filePath) == cwd = "markdownDir" /\ filePath \in files

\* The render collaborator answers "ok" or "fail"; page.goto of an empty
\* URL fails.
RenderOutcomes(input) == IF input = << >> THEN { "fail" } ELSE { "ok", "fail" }

\* GenerateFor with the render collaborator called before the decode is
\* looked at.
GenerateForRenderFirst(config, rendering, diagramData) ==
  IF ~diagramData.ok
  THEN [kind |-> "decode-error", imagePath |-> << >>, shouldReplace |-> FALSE,
        decoded |-> TRUE, rendered |-> TRUE, input |-> config.input]
  ELSE IF rendering = "fail" \/ config.input = << >>
  THEN [kind |-> "render-error", imagePath |-> << >>, shouldReplace |-> FALSE,
        decoded |-> TRUE, rendered |-> TRUE, input |-> config.input]
  ELSE [kind |-> "rendered", imagePath |-> RelativeImagePath(impl, diagramData.val),
        shouldReplace |-> TRUE, decoded |-> TRUE, rendered |-> TRUE, input |-> config.input]

\* processSingleUrl from the decode on: file name, render, relative path.
GenerateFor(config, rendering, diagramData) ==
  IF ~diagramData.ok
  THEN [kind |-> "decode-error", imagePath |-> << >>, shouldReplace |-> FALSE,
        decoded |-> TRUE, rendered |-> FALSE, input |-> << >>]
  ELSE IF rendering = "fail" \/ config.input = << >>
  THEN [kind |-> "render-error", imagePath |-> << >>, shouldReplace |-> FALSE,
        decoded |-> TRUE, rendered |-> TRUE, input |-> config.input]
  ELSE [kind |-> "rendered", imagePath |-> RelativeImagePath(impl, diagramData.val),
        shouldReplace |-> TRUE, decoded |-> TRUE, rendered |-> TRUE, input |-> config.input]

SingleUrlWith(quiverUrl, config, rendering, cacheEntry, urlChanged) ==
  IF cacheEntry # << >> /\ ~urlChanged /\ fileExists(cacheEntry[1].imagePath)
  THEN [kind |-> "hit", imagePath |-> cacheEntry[1].imagePath, shouldReplace |-> FALSE,
        decoded |-> FALSE, rendered |-> FALSE, input |-> << >>]
  ELSE GenerateFor(config, rendering, decodeQuiverData(quiverUrl.encodedData))

\* processSingleUrl that never looks at the cache.
processSingleUrlNoCache(quiverUrl, config, records, rendering) ==
  GenerateFor(config, rendering, decodeQuiverData(quiverUrl.encodedData))

\* What processSingleUrl does for one match when the render collaborator
\* would answer `rendering`: kind "hit" and "rendered" are its two returns,
\* "decode-error" and "render-error" its throws; decoded and rendered tell
\* whether decodeQuiverData and the collaborator were called, and input with
\* what the collaborator was.
processSingleUrl(quiverUrl, config, records, rendering) ==
  SingleUrlWith(quiverUrl, config, rendering,
                getCacheEntry(quiverUrl.url, records),
                hasUrlChanged(quiverUrl.url, quiverUrl.encodedData, records))

\* The config processSingleUrl gets for a match.
UrlConfig(quiverUrl) ==
  [strategy |-> "browser", input |-> IF impl = "image" THEN quiverUrl.url ELSE configInput]

\* The order in which reduce takes the matches, kept as scanned.
reversedUrlsForward(quiverUrls) == quiverUrls

\* [...quiverUrls].reverse()
reversedUrls(quiverUrls) ==
  [ k \in DOMAIN quiverUrls |-> quiverUrls[Len(quiverUrls) + 1 - k] ]

\* Date.now(): later than the records at hand.
Now(records) == 1 + Max({ records[k].timestamp : k \in DOMAIN records } \cup { 0 })

LogEntry(quiverUrl, r) ==
  [kind |-> r.kind, url |-> quiverUrl, imagePath |-> r.imagePath,
   decoded |-> r.decoded, rendered |-> r.rendered, input |-> r.input]

\* handleMarkdownSave up to the return of loadCache. The saves followed
\* are those up to the edit and the one after it.
LoadCache ==
  /\ pc = "idle"
  /\ edit = << >> \/ outcome = "none"
  /\ cache' = loadCache(cacheFile)
  /\ pc' = "loaded"
  /\ prev' = IF outcome = "none" THEN prev
             ELSE IF outcome \in { "write-error", "save-error" }
                     \/ \E k \in DOMAIN log : log[k].kind = "render-error"
             THEN "failed"
             ELSE "clean"
  /\ outcome' = "none"
  /\ log' = << >>
  /\ writes' = << >>
  /\ content' = << >> /\ todo' = << >> /\ state' = << >>
  /\ UNCHANGED << pureVars, envVars, fsVars >>

Scanned(quiverUrls) ==
  /\ todo' = reversedUrls(quiverUrls)
  /\ pc' = IF Len(quiverUrls) = 0 THEN "save" ELSE "reduce"

\* processMarkdownFile up to reduce: read, scan, initialState.
ReadAndScan ==
  /\ pc = "loaded"
  /\ content' = docFile
  /\ Scanned(extractQuiverUrls(docFile))
  /\ state' = [content |-> docFile, cache |-> cache, generatedImages |-> << >>, offset |-> 0]
  /\ UNCHANGED << pureVars, envVars, fsVars, cache, outcome, obsVars >>

\* A throw of processSingleUrl inside reduce: "svg" warns and goes on with
\* the state as it was; "image" warns and throws again, which ends
\* processMarkdownFile and takes handleMarkdownSave to its catch.
UrlFailed(r) ==
  /\ log' = Append(log, LogEntry(Head(todo), r))
  /\ IF impl = "svg"
     THEN /\ todo' = Tail(todo)
          /\ UNCHANGED << pc, outcome >>
     ELSE /\ pc' = "idle"
          /\ outcome' = "url-error"
          /\ UNCHANGED todo
  /\ UNCHANGED << pureVars, envVars, fsVars, cache, content, state, prev, writes >>

\* processSingleUrl for the match reduce is at.
Evaluated(rendering) ==
  processSingleUrl(Head(todo), UrlConfig(Head(todo)), state.cache, rendering)

CacheHitStep(quiverUrl, r) ==
  /\ r.kind = "hit"
  /\ log' = Append(log, LogEntry(quiverUrl, r))
  /\ todo' = Tail(todo)
  /\ UNCHANGED << pureVars, envVars, fsVars, pc, cache, content, state, outcome, prev, writes >>

UrlCacheHit ==
  /\ pc = "reduce" /\ todo # << >>
  /\ CacheHitStep(Head(todo), Evaluated("ok"))

FailedStep(r, kind) ==
  /\ r.kind = kind
  /\ UrlFailed(r)

UrlDecodeFails ==
  /\ pc = "reduce" /\ todo # << >>
  /\ FailedStep(Evaluated("ok"), "decode-error")

UrlRenderFails ==
  /\ pc = "reduce" /\ todo # << >>
  /\ FailedStep(Evaluated("fail"), "render-error")

RenderedStep(quiverUrl, r) ==
  /\ r.kind = "rendered"
  /\ files' = files \cup { r.imagePath }
  /\ state' = [content |-> replaceUrlWithImageRef(state.content, quiverUrl, r.imagePath),
               cache |-> addCacheEntry(state.cache,
                                       [url |-> quiverUrl.url,
                                        encodedData |-> quiverUrl.encodedData,
                                        imagePath |-> r.imagePath,
                                        timestamp |-> Now(state.cache)]),
               generatedImages |-> Append(state.generatedImages, r.imagePath),
               offset |-> state.offset]
  /\ log' = Append(log, LogEntry(quiverUrl, r))
  /\ todo' = Tail(todo)
  /\ UNCHANGED << pureVars, envVars, docFile, cacheFile, pc, cache, content, outcome, prev, writes >>

UrlRendered ==
  /\ pc = "reduce" /\ todo # << >>
  /\ "ok" \in RenderOutcomes(UrlConfig(Head(todo)).input)
  /\ RenderedStep(Head(todo), Evaluated("ok"))

\* WriteDocument that writes the text whether it changed or not.
WriteDocumentAlways ==
  /\ pc = "reduce" /\ todo = << >>
  /\ docFile' = state.content
  /\ pc' = "save"
  /\ writes' = Append(writes, "document")
  /\ UNCHANGED << pureVars, envVars, cacheFile, files, cache, content, todo, state, outcome, log, prev >>

\* After reduce: the document is written when its text changed.
WriteDocument ==
  /\ pc = "reduce" /\ todo = << >>
  /\ state.content # content
  /\ docFile' = state.content
  /\ pc' = "save"
  /\ writes' = Append(writes, "document")
  /\ UNCHANGED << pureVars, envVars, cacheFile, files, cache, content, todo, state, outcome, log, prev >>

\* WriteDocumentFails with the error of fs.writeFile swallowed:
\* processMarkdownFile returns as after a write.
WriteDocumentFailsSwallowed ==
  /\ pc = "reduce" /\ todo = << >>
  /\ state.content # content
  /\ pc' = "save"
  /\ writes' = Append(writes, "document-failed")
  /\ UNCHANGED << pureVars, envVars, fsVars, cache, content, todo, state, outcome, log, prev >>

\* fs.writeFile of the document throws: processMarkdownFile rejects and
\* handleMarkdownSave shows the error.
WriteDocumentFails ==
  /\ pc = "reduce" /\ todo = << >>
  /\ state.content # content
  /\ pc' = "idle"
  /\ outcome' = "write-error"
  /\ writes' = Append(writes, "document-failed")
  /\ UNCHANGED << pureVars, envVars, fsVars, cache, content, todo, state, log, prev >>

SkipWrite ==
  /\ pc = "reduce" /\ todo = << >>
  /\ state.content = content
  /\ pc' = "save"
  /\ UNCHANGED << pureVars, envVars, fsVars, cache, content, todo, state, outcome, obsVars >>

\* SaveCache that leaves the file alone when the records are those loaded.
SaveCacheSkipsUnchanged ==
  /\ pc = "save"
  /\ cacheFile' = IF state.cache = cache THEN cacheFile
                  ELSE [kind |-> "array", records |-> state.cache]
  /\ pc' = "idle"
  /\ outcome' = "ok"
  /\ writes' = IF state.cache = cache THEN writes ELSE Append(writes, "cache")
  /\ UNCHANGED << pureVars, envVars, docFile, files, cache, content, todo, state, log, prev >>

\* handleMarkdownSave after processMarkdownFile returned: saveCache.
SaveCache ==
  /\ pc = "save"
  /\ cacheFile' = [kind |-> "array", records |-> state.cache]
  /\ pc' = "idle"
  /\ outcome' = "ok"
  /\ writes' = Append(writes, "cache")
  /\ UNCHANGED << pureVars, envVars, docFile, files, cache, content, todo, state, log, prev >>

\* saveCache throws: handleMarkdownSave shows the error.
SaveCacheFails ==
  /\ pc = "save"
  /\ pc' = "idle"
  /\ outcome' = "save-error"
  /\ writes' = Append(writes, "cache-failed")
  /\ UNCHANGED << pureVars, envVars, fsVars, cache, content, todo, state, log, prev >>

(***************************************************************************)
(* The documents, cache files and artifacts a behaviour starts from.       *)
(***************************************************************************)

MaxRefs == 2

\* [0,0]: the empty graph.
PayloadA == << "W", "z", "A", "s", "M", "F", "0", "=" >>
\* [0,1,[0,0,"A"]]: one node.
PayloadB == << "W", "z", "A", "s", "M", "S", "x", "b", "M", "C", "w", "w", "L", "C", "J", "B", "I", "l", "1", "d" >>
\* {}: JSON that is no graph.
PayloadX == << "e", "3", "0", "=" >>

UrlA == UrlPrefix \o PayloadA
UrlB == UrlPrefix \o PayloadB
UrlX == UrlPrefix \o PayloadX

\* What a document is made of: a raw URL, or a URL that is already the
\* target of a link.
Segments ==
  { UrlA, UrlB, UrlX,
    << "[", "d", "]", "(" >> \o UrlA \o << ")" >> }

RECURSIVE JoinWithSpace(_)
JoinWithSpace(parts) ==
  IF Len(parts) = 0 THEN << >>
  ELSE IF Len(parts) = 1 THEN parts[1]
  ELSE parts[1] \o << " " >> \o JoinWithSpace(Tail(parts))

Documents == { JoinWithSpace(parts) : parts \in SeqsUpTo(Segments, MaxRefs) }

\* The record a successful run leaves for UrlA, and its artifact.
PathA(i) == RelativeImagePath(i, decodeQuiverData(PayloadA).val)
RecordA(i, t) == [url |-> UrlA, encodedData |-> PayloadA, imagePath |-> PathA(i), timestamp |-> t]

\* No cache file yet, the file a run wrote, or a file edited by hand that
\* holds two records of one url: loadCache takes any JSON array as it is.
CacheFiles(i) ==
  { [kind |-> "missing", records |-> << >>],
    [kind |-> "array", records |-> << RecordA(i, 1) >>],
    [kind |-> "array", records |-> << RecordA(i, 1), RecordA(i, 2) >>] }

\* The offsets at which a text stands in another.
OffsetsOf(text, s) ==
  { i \in 0..(Len(text) - Len(s)) : SubSeq(text, i + 1, i + Len(s)) = s }

\* Between the first save and the next the user edits the payload of the
\* first UrlA of the document, raw or the target of a link, into PayloadB. What
\* the run before left in memory is gone with it.
EditPayload ==
  /\ pc = "idle" /\ outcome = "ok" /\ prev = "none" /\ edit = << >>
  /\ \E i \in OffsetsOf(docFile, UrlA) :
       /\ \A j \in OffsetsOf(docFile, UrlA) : i <= j
       /\ docFile' = SubSeq(docFile, 1, i) \o UrlB
                       \o SubSeq(docFile, i + Len(UrlA) + 1, Len(docFile))
       /\ edit' = [start |-> i, was |-> UrlA, now |-> UrlB]
  /\ outcome' = "none"
  /\ prev' = "edited"
  /\ cache' = << >> /\ content' = << >> /\ todo' = << >> /\ state' = << >>
  /\ log' = << >> /\ writes' = << >>
  /\ UNCHANGED << pureVars, impl, configInput, cwd, waiting, browserVars, cacheFile, files, pc >>

Next ==
  \/ LoadCache
  \/ ReadAndScan
  \/ UrlCacheHit
  \/ UrlDecodeFails
  \/ UrlRenderFails
  \/ UrlRendered
  \/ WriteDocument
  \/ WriteDocumentFails
  \/ SkipWrite
  \/ SaveCache
  \/ SaveCacheFails
  \/ EditPayload

Init ==
  /\ op = "run" /\ arg = << >> /\ ret = << >>
  /\ impl \in { "svg", "image" }
  /\ configInput \in (IF impl = "svg" THEN { << >>, UrlA } ELSE { << >> })
  /\ cwd \in { "markdownDir", "other" }
  /\ docFile \in Documents
  /\ cacheFile \in CacheFiles(impl)
  /\ files \in (IF cwd = "markdownDir" THEN SUBSET { PathA(impl) } ELSE { {} })
  /\ pc = "idle" /\ cache = << >> /\ content = << >> /\ todo = << >>
  /\ state = << >> /\ outcome = "none"
  /\ log = << >> /\ prev = "none" /\ writes = << >> /\ edit = << >>
  /\ waiting = << >> /\ NoBrowser

Spec == Init /\ [][Next]_vars

(***************************************************************************)
(* Save events in quick succession. activate registers handleMarkdownSave  *)
(* itself as the listener of onDidSaveTextDocument: every event calls it,  *)
(* and a call that is awaiting (the cache file, the document, a render, a  *)
(* write) leaves the event loop free to start or continue another one. The *)
(* variables of the run are those of the invocation that runs, waiting     *)
(* holds the suspended one; two invocations at a time are followed.        *)
(***************************************************************************)

\* The invocation that runs, as it is kept while it waits.
Suspended ==
  [pc |-> pc, cache |-> cache, content |-> content, todo |-> todo, state |-> state,
   outcome |-> outcome, log |-> log, prev |-> prev, writes |-> writes]

\* Between the return of loadCache and the return of saveCache.
InProgress(at) == at \in { "loaded", "reduce", "save" }

\* A save event while an invocation is awaiting: handleMarkdownSave is
\* called again and starts from its first line.
SaveEvent ==
  /\ InProgress(pc)
  /\ waiting = << >>
  /\ waiting' = << Suspended >>
  /\ pc' = "idle" /\ cache' = << >> /\ content' = << >> /\ todo' = << >>
  /\ state' = << >> /\ outcome' = "none"
  /\ log' = << >> /\ prev' = "none" /\ writes' = << >>
  /\ UNCHANGED << pureVars, impl, configInput, cwd, edit, browserVars, fsVars >>

\* The await of the suspended invocation settles and the event loop goes
\* on with it; the one that ran waits in its place, unless it is over.
Resume ==
  /\ waiting # << >>
  /\ waiting' = IF pc = "idle" /\ outcome # "none" THEN << >> ELSE << Suspended >>
  /\ pc' = waiting[1].pc /\ cache' = waiting[1].cache /\ content' = waiting[1].content
  /\ todo' = waiting[1].todo /\ state' = waiting[1].state /\ outcome' = waiting[1].outcome
  /\ log' = waiting[1].log /\ prev' = waiting[1].prev /\ writes' = waiting[1].writes
  /\ UNCHANGED << pureVars, impl, configInput, cwd, edit, browserVars, fsVars >>

\* The documents saved: one reference, the same reference twice, two
\* references, and a reference after one whose payload is no graph.
SavedDocuments ==
  { JoinWithSpace(parts) :
      parts \in { << UrlA >>, << UrlA, UrlA >>, << UrlB, UrlA >>, << UrlX, UrlA >> } }

\* A document of raw references saved in a workspace without cache file
\* or artifacts, by a caller whose config lets the render succeed.
InitSaves ==
  /\ op = "run" /\ arg = << >> /\ ret = << >>
  /\ impl \in { "svg", "image" }
  /\ configInput = (IF impl = "svg" THEN UrlA ELSE << >>)
  /\ cwd = "markdownDir"
  /\ docFile \in SavedDocuments
  /\ cacheFile = [kind |-> "missing", records |-> << >>]
  /\ files = {}
  /\ pc = "idle" /\ cache = << >> /\ content = << >> /\ todo = << >>
  /\ state = << >> /\ outcome = "none"
  /\ log = << >> /\ prev = "none" /\ writes = << >> /\ edit = << >>
  /\ waiting = << >> /\ NoBrowser

NextSaves ==
  \/ LoadCache
  \/ ReadAndScan
  \/ UrlCacheHit
  \/ UrlDecodeFails
  \/ UrlRenderFails
  \/ UrlRendered
  \/ WriteDocument
  \/ SkipWrite
  \/ SaveCache
  \/ SaveEvent
  \/ Resume

SpecSaves == InitSaves /\ [][NextSaves]_vars

\* C27: the save handler never has two runs in progress at once: no
\* invocation is between its cache load and its cache save while another
\* one is.
OneRunAtATime ==
  ~(InProgress(pc) /\ \E k \in DOMAIN waiting : InProgress(waiting[k].pc))

(***************************************************************************)
(* The browser of png-generator.ts under calls that overlap: each call of  *)
(* generatePngFromBrowser and of closeBrowser is followed from await to    *)
(* await.                                                                  *)
(***************************************************************************)

MaxCalls == 3

Callers == 1..MaxCalls

\* browserInstance && browserInstance.connected
InstanceConnected ==
  browserInstance # 0 /\ browsers[browserInstance] = "connected"

\* generatePngFromBrowser up to the first await of getBrowser: the instance
\* is returned when there is one and it is connected, puppeteer.launch is
\* called otherwise.
GetBrowser(c) ==
  /\ calls[c].pc = "none"
  /\ IF InstanceConnected
     THEN /\ calls' = [calls EXCEPT ![c] = [pc |-> "page", browser |-> browserInstance]]
          /\ UNCHANGED browsers
     ELSE /\ browsers' = Append(browsers, "launching")
          /\ calls' = [calls EXCEPT ![c] = [pc |-> "launch", browser |-> Len(browsers) + 1]]
  /\ UNCHANGED << pureVars, impl, configInput, cwd, edit, waiting, browserInstance,
                  fsVars, runVars, obsVars >>

\* puppeteer.launch settles: getBrowser assigns browserInstance and
\* returns it.
Launched(c) ==
  /\ calls[c].pc = "launch"
  /\ browsers' = [browsers EXCEPT ![calls[c].browser] = "connected"]
  /\ browserInstance' = calls[c].browser
  /\ calls' = [calls EXCEPT ![c].pc = "page"]
  /\ UNCHANGED << pureVars, impl, configInput, cwd, edit, waiting, fsVars, runVars, obsVars >>

\* The rest of generatePngFromBrowser: the page is opened, used and
\* closed, or newPage throws; the browser stays as it is.
PageDone(c) ==
  /\ calls[c].pc = "page"
  /\ calls' = [calls EXCEPT ![c].pc = "done"]
  /\ UNCHANGED << pureVars, impl, configInput, cwd, edit, waiting, browserInstance, browsers,
                  fsVars, runVars, obsVars >>

\* closeBrowser up to its await: close is called on the instance.
CloseBrowser(c) ==
  /\ calls[c].pc = "none"
  /\ browserInstance # 0
  /\ calls' = [calls EXCEPT ![c] = [pc |-> "close", browser |-> browserInstance]]
  /\ UNCHANGED << pureVars, impl, configInput, cwd, edit, waiting, browserInstance, browsers,
                  fsVars, runVars, obsVars >>

\* close settles: closeBrowser sets browserInstance to null.
Closed(c) ==
  /\ calls[c].pc = "close"
  /\ browsers' = [browsers EXCEPT ![calls[c].browser] = "closed"]
  /\ browserInstance' = 0
  /\ calls' = [calls EXCEPT ![c].pc = "done"]
  /\ UNCHANGED << pureVars, impl, configInput, cwd, edit, waiting, fsVars, runVars, obsVars >>

\* A connected browser crashes or is closed from outside.
Disconnected ==
  /\ \E b \in DOMAIN browsers :
       /\ browsers[b] = "connected"
       /\ browsers' = [browsers EXCEPT ![b] = "closed"]
  /\ UNCHANGED << pureVars, impl, configInput, cwd, edit, waiting, browserInstance, calls,
                  fsVars, runVars, obsVars >>

InitBrowser ==
  /\ op = "run" /\ arg = << >> /\ ret = << >>
  /\ impl = "image" /\ configInput = << >> /\ cwd = "other" /\ edit = << >>
  /\ waiting = << >>
  /\ docFile = << >> /\ cacheFile = [kind |-> "missing", records |-> << >>] /\ files = {}
  /\ pc = "none" /\ cache = << >> /\ content = << >> /\ todo = << >>
  /\ state = << >> /\ outcome = "none"
  /\ log = << >> /\ prev = "none" /\ writes = << >>
  /\ browserInstance = 0
  /\ browsers = << >>
  /\ calls = [ c \in Callers |-> [pc |-> "none", browser |-> 0] ]

NextBrowser ==
  \/ \E c \in Callers : GetBrowser(c)
  \/ \E c \in Callers : Launched(c)
  \/ \E c \in Callers : PageDone(c)
  \/ \E c \in Callers : CloseBrowser(c)
  \/ \E c \in Callers : Closed(c)
  \/ Disconnected

SpecBrowser == InitBrowser /\ [][NextBrowser]_vars

Alive == { b \in DOMAIN browsers : browsers[b] \in { "launching", "connected" } }

\* C28: the render handle is a singleton: under any interleaving of render
\* calls at most one browser is launching or connected at any time.
AtMostOneBrowser == Cardinality(Alive) <= 1

(***************************************************************************)
(* Properties of the pipeline.                                             *)
(***************************************************************************)

RunOver == pc = "idle" /\ outcome # "none"
InRun == pc \in { "reduce", "save" } \/ RunOver

\* The text a splice leaves in place of the match of a log entry.
ReplacementOf(e) ==
  << "[", "!", "[", "d", "i", "a", "g", "r", "a", "m", "]", "(" >> \o e.imagePath
  \o << ")", "]", "(" >> \o e.url.url \o << ")" >>

\* The log entries of the matches spliced so far, by ascending start.
SplicedAscending ==
  LET spliced == SelectSeq(log, LAMBDA e : e.kind = "rendered")
  IN [ k \in DOMAIN spliced |-> spliced[Len(spliced) + 1 - k] ]

\* The text from offset `from` on with the spans of the entries replaced,
\* put together from left to right.
RECURSIVE RebuiltFrom(_, _, _)
RebuiltFrom(text, from, entries) ==
  IF entries = << >> THEN SubSeq(text, from + 1, Len(text))
  ELSE SubSeq(text, from + 1, Head(entries).url.position.start)
       \o ReplacementOf(Head(entries))
       \o RebuiltFrom(text, Head(entries).url.position.end, Tail(entries))

\* C2: reduce takes the matches by descending start, so the accumulated
\* text at [start, end) of every match still to be taken is that match's
\* URL, and the accumulated text is the text read with every spliced span
\* replaced by its replacement and every other character kept in order.
OffsetSafety ==
  /\ pc = "reduce" =>
       /\ \A k \in DOMAIN todo :
            SubSeq(state.content, todo[k].position.start + 1, todo[k].position.end) = todo[k].url
       /\ \A k \in 1..(Len(todo) - 1) : todo[k].position.start > todo[k + 1].position.start
       /\ \A k \in DOMAIN todo : \A j \in DOMAIN log :
            log[j].url.position.start > todo[k].position.start
  /\ InRun => state.content = RebuiltFrom(content, 0, SplicedAscending)

\* A run that spliced two matches of a document and wrote it.
OffsetSafetyWitness ==
  /\ RunOver /\ outcome = "ok"
  /\ Len(log) = 2
  /\ log[1].kind = "rendered" /\ log[2].kind = "rendered"
  /\ log[1].url.position.start > log[2].url.position.end
  /\ docFile = state.content
  /\ docFile # content

\* What a run that is over left behind, against what it started from: the
\* document as it was read, the records of the cache file as they were
\* loaded and, when processMarkdownFile returned, its updatedCache as loaded.
LeftAsFound ==
  /\ docFile = content
  /\ loadCache(cacheFile) = cache
  /\ outcome \in { "ok", "save-error" } => state.cache = cache

FailureOfOneMatchDoesNotAbort ==
  (RunOver /\ \E k \in DOMAIN log : log[k].kind \in { "decode-error", "render-error" }) =>
    /\ outcome # "url-error"
    /\ Len(log) = Len(extractQuiverUrls(content))
    /\ \A k \in DOMAIN log :
         log[k].kind = "rendered" =>
           /\ \E j \in DOMAIN state.cache :
                state.cache[j].url = log[k].url.url /\ state.cache[j].imagePath = log[k].imagePath
           /\ \E j \in 1..Len(state.content) :
                SubSeq(state.content, j, j + Len(ReplacementOf(log[k])) - 1) = ReplacementOf(log[k])

\* The records a run holds and, once saved, those of the cache file have at
\* most one record per url.
RunKeepsOnePerUrl ==
  /\ InRun => AtMostOnePerUrl(state.cache)
  /\ (RunOver /\ outcome = "ok") => AtMostOnePerUrl(cacheFile.records)

\* C8 as stated: at most one record per url at every point of a run and in
\* the records returned and saved, whatever was loaded.
OnePerUrlWhateverLoaded == RunKeepsOnePerUrl

\* C8: at most one record per url at every point of a run and in the
\* records returned and saved when the records loaded had at most one per
\* url; whatever was loaded, a url the run rendered has one record, the one
\* written last.
OnePerUrlWhenLoadedSo ==
  /\ AtMostOnePerUrl(cache) => RunKeepsOnePerUrl
  /\ InRun =>
       \A k \in DOMAIN log :
         log[k].kind = "rendered" =>
           /\ Cardinality({ j \in DOMAIN state.cache : state.cache[j].url = log[k].url.url }) = 1
           /\ \A j \in DOMAIN state.cache :
                state.cache[j].url = log[k].url.url =>
                  /\ state.cache[j].imagePath = log[k].imagePath
                  /\ \A i \in DOMAIN cache : state.cache[j].timestamp > cache[i].timestamp

\* A run that loaded a record of a url, rendered the url again and saved:
\* the one record of the url is the new one.
OnePerUrlWitness ==
  /\ RunOver /\ outcome = "ok"
  /\ \E i \in DOMAIN cache : \E k \in DOMAIN log :
       /\ log[k].kind = "rendered"
       /\ cache[i].url = log[k].url.url
       /\ \E j \in DOMAIN cacheFile.records :
            /\ cacheFile.records[j].url = cache[i].url
            /\ cacheFile.records[j].timestamp > cache[i].timestamp
  /\ AtMostOnePerUrl(cacheFile.records)
  /\ Len(cacheFile.records) = 2

CacheHitStillSplices ==
  InRun =>
    \A k \in DOMAIN log :
      log[k].kind = "hit" =>
        /\ log[k].url.position.start + Len(ReplacementOf(log[k])) <= Len(state.content)
        /\ SubSeq(state.content, log[k].url.position.start + 1,
                  log[k].url.position.start + Len(ReplacementOf(log[k]))) = ReplacementOf(log[k])

\* processMarkdownFile is past reduce: it returned, or its write failed.
ReduceOver == pc = "save" \/ (RunOver /\ outcome # "url-error")

CacheWrittenOnlyIfRecordChanged ==
  "cache" \in Range(writes) => \E k \in DOMAIN log : log[k].kind = "rendered"

\* C12: the cache file is written at the end of every run in which
\* processMarkdownFile returned, whether a record was added or replaced or
\* not, and in no other run; a run that changed no record writes the
\* records it loaded.
CacheWrittenWheneverRunReturns ==
  /\ RunOver =>
       /\ ("cache" \in Range(writes)) <=> (outcome = "ok")
       /\ outcome = "ok" => cacheFile = [kind |-> "array", records |-> state.cache]
       /\ (outcome = "ok" /\ \A k \in DOMAIN log : log[k].kind # "rendered") =>
            cacheFile.records = cache
  /\ ~RunOver => "cache" \notin Range(writes)

\* A first run that found no cache file and rendered nothing, and wrote
\* the file with no record in it.
CacheWrittenUnchangedWitness ==
  /\ RunOver /\ outcome = "ok" /\ prev = "none"
  /\ cache = << >>
  /\ \A k \in DOMAIN log : log[k].kind # "rendered"
  /\ writes = << "cache" >>
  /\ cacheFile = [kind |-> "array", records |-> << >>]

\* C13: a write of the document that fails ends the run with that error
\* shown and with no write of the cache file, tried or done; a write of
\* the cache file that fails ends the run with that error shown.
WriteFailuresAreFatal ==
  /\ "document-failed" \in Range(writes) =>
       /\ RunOver /\ outcome = "write-error"
       /\ writes = << "document-failed" >>
       /\ loadCache(cacheFile) = cache
       /\ docFile = content
  /\ "cache-failed" \in Range(writes) =>
       /\ RunOver /\ outcome = "save-error"
       /\ writes[Len(writes)] = "cache-failed"
       /\ loadCache(cacheFile) = cache

\* A run whose write of the document failed after a match was rendered.
WriteFailureWitness ==
  /\ RunOver /\ outcome = "write-error"
  /\ writes = << "document-failed" >>
  /\ \E k \in DOMAIN log : log[k].kind = "rendered"
  /\ state.cache # cache
  /\ loadCache(cacheFile) = cache

\* The run after the edit of a payload is over, the reference edited had a
\* record when the run began, no match of the run failed and no other match
\* was rendered.
EditedRunOver ==
  /\ RunOver /\ outcome = "ok" /\ prev = "edited"
  /\ getCacheEntry(edit.was, cache) # << >>
  /\ \A k \in DOMAIN log :
       /\ log[k].kind \in { "hit", "rendered" }
       /\ log[k].kind = "rendered" => log[k].url.position.start = edit.start

\* C18: when the payload of a reference is edited to another graph and the
\* pipeline runs again, the reference is found changed and rendered, its
\* artifact path is not the one of the record it had, and that record is
\* replaced: the run ends with no more records than it loaded.
EditedPayloadReplacesRecord ==
  EditedRunOver =>
    /\ \E k \in DOMAIN log :
         /\ log[k].url.position.start = edit.start
         /\ log[k].url.url = edit.now
         /\ log[k].kind = "rendered"
         /\ log[k].imagePath # getCacheEntry(edit.was, cache)[1].imagePath
    /\ Len(state.cache) <= Len(cache)
    /\ Len(cacheFile.records) <= Len(cache)

\* The entries of the log at which the render collaborator was called.
RenderCalls == { k \in DOMAIN log : log[k].rendered }

\* C19 as stated: the render calls of a run occur in ascending order of the
\* matches' start offsets.
RenderCallsAscending ==
  \A i, j \in RenderCalls :
    i < j => log[i].url.position.start < log[j].url.position.start

\* C19: the matches of a run are evaluated in the order in which they are
\* spliced, right to left, each match evaluated and spliced before the one
\* to its left is evaluated; so the render calls of a run occur in
\* descending order of the matches' start offsets.
EvaluatedRightToLeft ==
  /\ \A i, j \in DOMAIN log :
       i < j => log[i].url.position.start > log[j].url.position.start
  /\ pc = "reduce" =>
       /\ \A k \in DOMAIN todo : \A j \in DOMAIN log :
            todo[k].position.start < log[j].url.position.start
       /\ (todo # << >> /\ log # << >> /\ log[Len(log)].kind = "rendered") =>
            SubSeq(state.content, log[Len(log)].url.position.start + 1,
                   log[Len(log)].url.position.start + Len(ReplacementOf(log[Len(log)])))
              = ReplacementOf(log[Len(log)])

\* A run over in which the collaborator was called for two matches, for
\* the right one first.
EvaluatedRightToLeftWitness ==
  /\ RunOver
  /\ RenderCalls = { 1, 2 }
  /\ log[1].url.position.start > log[2].url.position.start

\* C22: a step of reduce changes the accumulated state only when the match
\* it is at was decoded and rendered, and then the record added carries the
\* url and payload of that match; a match whose decode fails is not
\* rendered, and a match whose decode or render fails leaves the text, the
\* records and the generated images as they were before it.
RecordOnlyAfterRender ==
  [][(pc = "reduce" /\ todo # << >>)
     => /\ state' # state =>
             /\ Len(log') = Len(log) + 1
             /\ log'[Len(log')].url = Head(todo)
             /\ log'[Len(log')].kind = "rendered"
             /\ log'[Len(log')].decoded /\ log'[Len(log')].rendered
             /\ decodeQuiverData(Head(todo).encodedData).ok
             /\ state'.cache[Len(state'.cache)].url = Head(todo).url
             /\ state'.cache[Len(state'.cache)].encodedData = Head(todo).encodedData
             /\ \A k \in 1..(Len(state'.cache) - 1) :
                  \E j \in DOMAIN state.cache : state'.cache[k] = state.cache[j]
        /\ (Len(log') = Len(log) + 1 /\ ~decodeQuiverData(Head(todo).encodedData).ok
            /\ log'[Len(log')].kind # "hit") =>
             /\ log'[Len(log')].kind = "decode-error"
             /\ ~log'[Len(log')].rendered
        /\ (Len(log') = Len(log) + 1
            /\ log'[Len(log')].kind \in { "decode-error", "render-error" }) =>
             /\ state' = state
             /\ files' = files]_vars

\* A run over in which the first match taken failed to decode and the
\* second was rendered: one record more than loaded, of the second match.
RecordOnlyAfterRenderWitness ==
  /\ RunOver /\ Len(log) = 2
  /\ log[1].kind = "decode-error" /\ log[2].kind = "rendered"
  /\ Len(state.cache) = Len(cache) + 1
  /\ state.cache[Len(state.cache)].url = log[2].url.url
  /\ state.generatedImages = << log[2].imagePath >>

\* C26: for every match the render collaborator is called for, its input is
\* the URL of that match, and the artifact of a match rendered is the file
\* at the path derived from the graph the match's payload decodes to.
RenderedFromOwnUrl ==
  \A k \in DOMAIN log :
    log[k].rendered =>
      /\ log[k].input = log[k].url.url
      /\ log[k].kind = "rendered" =>
           /\ log[k].imagePath
                = RelativeImagePath(impl, decodeQuiverData(log[k].url.encodedData).val)
           /\ log[k].imagePath \in files

\* C29: after a run in which no decode and no render failed, scanning the
\* document again returns no match, whether or not a URL occurs several
\* times or has a record in the cache.
NoRawReferenceAfterCleanRun ==
  (RunOver /\ outcome = "ok"
   /\ \A k \in DOMAIN log : log[k].kind \notin { "decode-error", "render-error" })
    => extractQuiverUrls(docFile) = << >>

====
